---- MODULE Spec2Model ----
(***************************************************************************)
(* Model of the stateful SIP proxy of zurustar/xylitol4: the transaction   *)
(* layer (src/sip/transaction.go), the INVITE / non-INVITE transaction     *)
(* state machines, and the transaction user with its broadcast-forking     *)
(* sessions (src/unnamed/part_001).                                        *)
(*                                                                         *)
(* Time.  Every time.Time field of an entry is kept as the signed distance *)
(* from the current clock reading to the deadline: <<r>> means "r units    *)
(* from now" (r <= 0: the deadline has been reached, r < 0: it has been    *)
(* passed), and <<>> is the zero time.Time.  The unit is 500ms, so that    *)
(* all default timers are integers.  Distances are floored at -1, which    *)
(* keeps every comparison the code makes (IsZero, Equal, After) exact.     *)
(*                                                                         *)
(* Messages are records; Clone is the identity on values.  The Via header  *)
(* is the sequence of the branch parameters of its values, topmost first;  *)
(* <<>> as a branch is the empty string (no branch parameter).  A Contact  *)
(* header is the sequence of its values, and a Contact or To value is the  *)
(* sequence of its ";"-separated segments: the address first, then the     *)
(* parameters as pairs <<name, value>>; <<>> is the header that is absent. *)
(*                                                                         *)
(* The registrar (src/unnamed/part_005) is the value of the variable       *)
(* registrar.  Its clock counts seconds.  A string that the code reads as  *)
(* a number is Number(n) or Text(s); MD5 is a symbolic one-way function:   *)
(* md5Hex(x) is the pair <<"md5", x>>, so two digests are equal exactly    *)
(* when their inputs are.                                                  *)
(***************************************************************************)
EXTENDS Integers, Sequences, FiniteSets, TLC

VARIABLES
    serverTxns,   \* transactionLayer.serverTxns : key -> serverTransactionEntry
    clientTxns,   \* transactionLayer.clientTxns : key -> clientTransactionEntry
    toTU,         \* channel transaction layer -> TU (tuEvent)
    fromTU,       \* channel TU -> transaction layer (tuAction)
    sessions,     \* transactionUser.sessions : serverTxID -> broadcastSession
    callIndex,    \* transactionUser.callIndex : callKey -> serverTxID
    broadcast,    \* transactionUser.broadcast : the BroadcastPolicy map
    peer,         \* the requests the downstream peer sends and re-sends
    nextBranch,   \* number of branches newBranchID has handed out
    emitted,      \* transport events the last step put on toTransport; a
                  \* tick, which also sends to the TU, logs those sends here
                  \* too, in the order of the calls
    last,         \* the last step taken and its input
    upstreamSeen, \* requests the upstream side has received so far
    hist,         \* per server transaction: what SendResponse put downstream
    reqLeft,      \* downstream requests still to come
    respLeft,     \* upstream responses still to come
    ticksLeft,    \* timer ticks still to come (negative: no limit)
    registrar,    \* transactionUser.registrar : <<>> is nil, else <<r>> with
                  \* r.store, r.bindings and r.now, what r.clock() returns
    found,        \* what the last call of Registrar.BindingsFor returned
    stack,        \* SIPStack: managedDomains, directory, upstreamAddr
    routed,       \* what the last call of SIPStack.selectUpstreamTarget got and
                  \* returned: <<>> before the first call
    ctxDone,      \* Proxy.ctx is cancelled
    chans,        \* the buffered channels of NewProxy: what each holds
    closed,       \* the channels that have been closed
    tasks,        \* the goroutine of each layer: where it is, and the sends
                  \* the handler it runs still has to make
    stopAt        \* where the caller of Proxy.Stop is

vars == <<serverTxns, clientTxns, toTU, fromTU, sessions, callIndex, broadcast, peer,
          nextBranch, emitted, last, upstreamSeen, hist, reqLeft, respLeft,
          ticksLeft, registrar, found, stack, routed, ctxDone, chans, closed, tasks,
          stopAt>>

\* the variables of the SIP stack around the proxy
stackVars == <<stack, routed>>

\* the variables of the goroutines and channels of the proxy
pipeVars == <<ctxDone, chans, closed, tasks, stopAt>>

----------------------------------------------------------------------------
(* Bounds of the exploration *)

MaxRequests == 3
MaxResponses == 3
MaxTargets == 2
MaxTicks == 3
MaxInFlight == 0
MaxForkRequests == 2
MaxForkResponses == 2
MaxForkTicks == 2
MaxLiveRequests == 1
MaxLiveResponses == 2
MaxRegRequests == 2
MaxRegResponses == 1
MaxRegTicks == 1
MaxClock == 3
MaxHeaderRequests == 2
MaxHeaderResponses == 2
MaxHeaderTicks == 1
QueueCap == 1
MaxSweepSends == 1

\* the broadcast calls with answering targets: requests from downstream
\* and answers from the targets
MaxCastRequests == 2
MaxCastResponses == 3

----------------------------------------------------------------------------
(* Timer constants, in units of 500ms (transaction.go:119-139) *)

defaultTimerT1 == 1
defaultTimerT2 == 8
defaultTimerT4 == 10
defaultServerTransactionTTL == 64
serverTransactionCleanupInterval == 2
defaultTimerGInitial == defaultTimerT1
defaultTimerGMax == defaultTimerT2
defaultTimerH == 64 * defaultTimerT1
defaultTimerI == defaultTimerT4
defaultTimerJ == 64 * defaultTimerT1
defaultTimerAInitial == defaultTimerT1
defaultTimerAMax == defaultTimerT2
defaultTimerB == 64 * defaultTimerT1
defaultTimerC == 360
defaultTimerD == 64
defaultTimerEInitial == defaultTimerT1
defaultTimerEMax == defaultTimerT2
defaultTimerF == 64 * defaultTimerT1
defaultTimerK == defaultTimerT4

\* The layer built by newTransactionLayer carries the defaults in its fields.
serverTransactionRetention == defaultServerTransactionTTL
timerGStart == defaultTimerGInitial
timerGMaxInterval == defaultTimerGMax
timerH == defaultTimerH
timerI == defaultTimerI
timerJ == defaultTimerJ
timerAStart == defaultTimerAInitial
timerAMaxInterval == defaultTimerAMax
timerB == defaultTimerB
timerC == defaultTimerC
timerD == defaultTimerD
timerEStart == defaultTimerEInitial
timerEMaxInterval == defaultTimerEMax
timerF == defaultTimerF
timerK == defaultTimerK

----------------------------------------------------------------------------
(* Time values *)

ZeroTime == <<>>
IsZero(t) == t = <<>>
\* now.Add(d), seen from now
NowAdd(d) == <<d>>
\* a comparison that never finds a time passed
NowAfterNever(t) == FALSE
\* now.After(t)
NowAfter(t) == t[1] < 0
\* the strict comparison, which misses a time reached exactly
NowNotBeforeStrict(t) == t[1] < 0
\* now.Equal(t) || now.After(t)
NowNotBefore(t) == t[1] <= 0
\* the same deadline seen d units later
Later(t, d) == IF t = <<>> THEN <<>> ELSE IF t[1] - d < 0 THEN <<0 - 1>> ELSE <<t[1] - d>>

----------------------------------------------------------------------------
(* Small helpers *)

Min(a, b) == IF a < b THEN a ELSE b

SetMax(S) == CHOOSE x \in S : \A y \in S : y <= x

SetMin(S) == CHOOSE x \in S : \A y \in S : x <= y

\* all orders in which a Go map can be ranged over, for the keys S whose
\* iterations do something
RECURSIVE Orders(_)
Orders(S) ==
    IF S = {} THEN {<<>>}
    ELSE UNION {{<<x>> \o rest : rest \in Orders(S \ {x})} : x \in S}

\* the function f without key k (delete(f, k))
MapDelete(f, k) == [x \in DOMAIN f \ {k} |-> f[x]]

\* the function f with f[k] = v (f[k] = v on a Go map)
MapPut(f, k, v) == [x \in DOMAIN f \cup {k} |-> IF x = k THEN v ELSE f[x]]

\* strings.ToUpper on the method, scheme and algorithm names that occur
ToUpper(m) ==
    CASE m = "invite" -> "INVITE"
      [] m = "register" -> "REGISTER"
      [] m = "Digest" -> "DIGEST"
      [] m = "digest" -> "DIGEST"
      [] m = "md5" -> "MD5"
      [] m = "Alice" -> "ALICE"
      [] m = "alice" -> "ALICE"
      [] m = "options" -> "OPTIONS"
      [] m = "cancel" -> "CANCEL"
      [] m = "ack" -> "ACK"
      [] m = "bye" -> "BYE"
      [] OTHER -> m

\* strings.EqualFold on those names
EqualFold(a, b) == ToUpper(a) = ToUpper(b)

----------------------------------------------------------------------------
(* Messages *)

NoBranch == <<>>

\* a header or parameter value that is not a decimal number, and one that is
Text(s) == [isNumber |-> FALSE, number |-> 0, text |-> s]
Number(n) == [isNumber |-> TRUE, number |-> n, text |-> ""]
Blank == Text("")

\* a SIPStack that was not started: no domain, no directory, no upstream
NoStack == [managedDomains |-> {}, directory |-> <<>>, upstreamAddr |-> <<>>]

NewRequest(method, uri) ==
    [isRequest |-> TRUE, Method |-> method, RequestURI |-> uri, StatusCode |-> 0,
     Via |-> <<>>, CallID |-> "", CSeqNum |-> 0, CSeqMethod |-> "",
     MaxForwards |-> <<>>, Contact |-> <<>>, To |-> <<>>, Expires |-> Blank,
     Authorization |-> <<>>, WWWAuthenticate |-> <<>>, Body |-> ""]

NewResponse(status) ==
    [isRequest |-> FALSE, Method |-> "", RequestURI |-> "", StatusCode |-> status,
     Via |-> <<>>, CallID |-> "", CSeqNum |-> 0, CSeqMethod |-> "",
     MaxForwards |-> <<>>, Contact |-> <<>>, To |-> <<>>, Expires |-> Blank,
     Authorization |-> <<>>, WWWAuthenticate |-> <<>>, Body |-> ""]

\* CopyHeaders(resp, req, "Via", "From", "To", "Call-ID", "CSeq")
CopyHeaders(dst, src) ==
    [dst EXCEPT !.Via = src.Via, !.CallID = src.CallID, !.To = src.To,
                !.CSeqNum = src.CSeqNum, !.CSeqMethod = src.CSeqMethod]

topViaBranch(msg) == IF Len(msg.Via) = 0 THEN NoBranch ELSE msg.Via[1]

cseqMethod(msg) == ToUpper(msg.CSeqMethod)

transactionKey(branch, method) == <<ToUpper(method), branch>>

keyBranch(key) == key[2]

\* the i-th value of newBranchID
BranchID(i) == <<"z9hG4bK", i>>

Upstream(msg) == [Direction |-> "upstream", Message |-> msg]
Downstream(msg) == [Direction |-> "downstream", Message |-> msg]

\* a tuEvent sent with sendToTU, as an entry of the log of a tick
ToTU(event) == [Direction |-> "tu", Message |-> event.Message]

----------------------------------------------------------------------------
(* Transaction state machines *)

\* inviteServerTransaction.onSendResponse
inviteServerOnSendResponse(status) ==
    IF status < 200 THEN "Proceeding"
    ELSE IF status < 300 THEN "Terminated"
    ELSE "Completed"

\* nonInviteServerTransaction.onSendResponse
nonInviteServerOnSendResponse(status) ==
    IF status < 200 THEN "Proceeding" ELSE "Terminated"

\* inviteClientTransaction.onReceiveResponse: the new state and the result
inviteClientOnReceiveResponse(status) ==
    IF status < 200 THEN [state |-> "Proceeding", completed |-> FALSE]
    ELSE IF status < 300 THEN [state |-> "Terminated", completed |-> TRUE]
    ELSE [state |-> "Completed", completed |-> FALSE]

\* nonInviteClientTransaction.onReceiveResponse
nonInviteClientOnReceiveResponse(status) ==
    IF status < 200 THEN [state |-> "Proceeding", completed |-> FALSE]
    ELSE [state |-> "Completed", completed |-> FALSE]

\* newServerTransactionForMethod, wrapped in its serverTransactionEntry
newServerTransactionEntry(method, branch, req) ==
    [method |-> method, branch |-> branch,
     isInvite |-> EqualFold(method, "INVITE"),
     state |-> IF EqualFold(method, "INVITE") THEN "Proceeding" ELSE "Trying",
     request |-> req, lastResponse |-> <<>>,
     expires |-> NowAdd(serverTransactionRetention),
     deadline |-> ZeroTime, retransmitAt |-> ZeroTime, retransmitInterval |-> 0]

\* newClientTransactionForMethod, wrapped in its clientTransactionEntry with
\* the timers handleTUAction starts
newClientTransactionEntry(method, branch, req, serverTxID) ==
    LET invite == EqualFold(method, "INVITE") IN
    [method |-> method, branch |-> branch, isInvite |-> invite,
     state |-> IF invite THEN "Calling" ELSE "Trying",
     request |-> req, lastResponse |-> <<>>, serverTxID |-> serverTxID,
     retransmitInterval |-> IF invite THEN timerAStart ELSE timerEStart,
     retransmitAt |-> IF invite THEN NowAdd(timerAStart) ELSE NowAdd(timerEStart),
     deadline |-> IF invite THEN NowAdd(timerB) ELSE NowAdd(timerF),
     timerCDeadline |-> IF invite THEN NowAdd(timerC) ELSE ZeroTime,
     terminateAt |-> ZeroTime]

\* timeoutResponseFromRequest(data, 408, "Request Timeout")
timeoutResponseFromRequest(req, status) == CopyHeaders(NewResponse(status), req)

\* cancelFromRequest
cancelFromRequest(req) ==
    [req EXCEPT !.isRequest = TRUE, !.Method = "CANCEL", !.StatusCode = 0,
                !.CSeqMethod = "CANCEL"]

\* the history kept for a server transaction from its creation: the finals and
\* the 2xx that SendResponse put downstream on it, whether the TU forked it,
\* the finals its INVITE client transactions got from upstream (a timeout
\* counts as 408), and whether handleAck accepted an ACK for it
NewHist ==
    [finals |-> 0, oks |-> 0, forked |-> FALSE, upFinals |-> {}, up2xx |-> FALSE,
     acked |-> FALSE]

\* the history after an INVITE client transaction of serverTxID got a final
NoteFinal(h, serverTxID, status) ==
    IF serverTxID \notin DOMAIN h THEN h
    ELSE [h EXCEPT ![serverTxID].upFinals = IF status >= 300 THEN @ \cup {status} ELSE @,
                   ![serverTxID].up2xx = @ \/ (status >= 200 /\ status < 300)]

\* the layer takes the next message or tick only while at most
\* MaxInFlight events and actions wait between the layer and the TU
Room == Len(toTU) + Len(fromTU) <= MaxInFlight

Step(act, key, status) == [act |-> act, key |-> key, status |-> status]

----------------------------------------------------------------------------
(* Transaction layer: requests from downstream *)

\* a rejection put on the queue for upstream
rejectRequestUpstream(req, status) == Upstream(CopyHeaders(NewResponse(status), req))
\* transactionLayer.rejectRequest: the response put on the transport queue
rejectRequest(req, status) == Downstream(CopyHeaders(NewResponse(status), req))

\* transactionLayer.handleAck: the server registry after the ACK
handleAck(branch) ==
    LET key == transactionKey(branch, "INVITE") IN
    IF branch = NoBranch THEN serverTxns
    ELSE IF key \notin DOMAIN serverTxns THEN serverTxns
    ELSE IF ~serverTxns[key].isInvite THEN serverTxns
    ELSE IF serverTxns[key].state # "Completed" THEN serverTxns
    ELSE IF timerI <= 0 THEN MapDelete(serverTxns, key)
    ELSE [serverTxns EXCEPT ![key] =
             [@ EXCEPT !.state = "Confirmed",
                       !.deadline = NowAdd(timerI),
                       !.retransmitInterval = 0,
                       !.retransmitAt = ZeroTime,
                       !.expires = NowAdd(serverTransactionRetention)]]

\* a lookup that never finds the entry
knownServerTransactionNever(key) == FALSE
\* handleRequest: "entry, ok := t.serverTxns[key]; ok"
knownServerTransaction(key) == key \in DOMAIN serverTxns

\* an entry read as if it had no response cached
cachedResponseLost(entry) == <<>>
\* handleRequest: the cached response to re-send, <<>> if there is none
cachedResponse(entry) == entry.lastResponse

\* a retransmitted request that restarts the deadline of the entry too
refreshRetentionAndDeadline(entry) ==
    [entry EXCEPT !.expires = NowAdd(serverTransactionRetention),
                  !.deadline = IF IsZero(@) THEN @
                               ELSE NowAdd(serverTransactionRetention)]
\* handleRequest on a retransmitted request: only the retention of the entry
\* is restarted
refreshRetention(entry) ==
    [entry EXCEPT !.expires = NowAdd(serverTransactionRetention)]

\* transactionLayer.handleRequest
handleRequest(req) ==
    LET branch == topViaBranch(req)
        method == ToUpper(req.Method)
        key == transactionKey(branch, method)
    IN
    /\ last' = Step("handleRequest", key, 0)
    /\ UNCHANGED <<clientTxns, fromTU, sessions, callIndex, broadcast, peer, nextBranch,
                   upstreamSeen, respLeft, ticksLeft, registrar, found, stackVars, pipeVars>>
    /\ IF branch = NoBranch
       THEN /\ emitted' = <<rejectRequest(req, 400)>>
            /\ UNCHANGED <<serverTxns, toTU, hist>>
       ELSE IF method = "ACK"
       THEN /\ serverTxns' = handleAck(branch)
            /\ emitted' = <<>>
            /\ hist' = IF handleAck(branch) # serverTxns
                       THEN [hist EXCEPT ![transactionKey(branch, "INVITE")].acked = TRUE]
                       ELSE hist
            /\ UNCHANGED toTU
       ELSE IF knownServerTransaction(key)
       THEN /\ emitted' = IF cachedResponse(serverTxns[key]) # <<>>
                          THEN <<Downstream(cachedResponse(serverTxns[key])[1])>>
                          ELSE <<>>
            /\ serverTxns' = [serverTxns EXCEPT ![key] = refreshRetention(@)]
            /\ UNCHANGED <<toTU, hist>>
       ELSE /\ serverTxns' = MapPut(serverTxns, key,
                                    newServerTransactionEntry(method, branch, req))
            /\ toTU' = Append(toTU, [Kind |-> "tuEventRequest", ServerTxID |-> key,
                                      ClientTxID |-> <<>>, Message |-> req])
            /\ hist' = MapPut(hist, key, NewHist)
            /\ emitted' = <<>>

----------------------------------------------------------------------------
(* Transaction layer: responses from upstream *)

\* a 2xx treated like the other finals: the entry waits for timer D
inviteClientSuccessKept(e1) ==
    [keep |-> TRUE, entry |-> [e1 EXCEPT !.timerCDeadline = ZeroTime,
                                         !.terminateAt = NowAdd(timerD)]]
\* handleResponse, INVITE client transaction, 2xx: the entry is deleted
inviteClientSuccess(e1) ==
    [keep |-> FALSE, entry |-> [e1 EXCEPT !.timerCDeadline = ZeroTime]]

\* timers A and B left running after a response
stopRequestTimersNot(entry) == entry
\* handleResponse, case *inviteClientTransaction: any response stops timer B
\* and the retransmissions of timer A
stopRequestTimers(entry) ==
    [entry EXCEPT !.deadline = ZeroTime, !.retransmitAt = ZeroTime,
                  !.retransmitInterval = 0]

\* the entry of an INVITE client transaction after a response (the switch of
\* handleResponse, first case); keep says whether it stays in the registry
inviteClientAfterResponse(entry, resp) ==
    LET status == resp.StatusCode
        r == inviteClientOnReceiveResponse(status)
        e1 == stopRequestTimers([entry EXCEPT !.lastResponse = <<resp>>,
                                              !.state = r.state])
    IN
    IF status < 200
    THEN [keep |-> ~r.completed,
          entry |-> IF IsZero(e1.timerCDeadline) /\ timerC > 0
                    THEN [e1 EXCEPT !.timerCDeadline = NowAdd(timerC)]
                    ELSE e1]
    ELSE IF status < 300
    THEN inviteClientSuccess(e1)
    ELSE IF timerD > 0
    THEN [keep |-> ~r.completed,
          entry |-> [e1 EXCEPT !.timerCDeadline = ZeroTime,
                               !.terminateAt = NowAdd(timerD)]]
    ELSE [keep |-> FALSE,
          entry |-> [e1 EXCEPT !.timerCDeadline = ZeroTime, !.state = "Terminated"]]

\* the same for a non-INVITE client transaction (default case of the switch)
nonInviteClientAfterResponse(entry, resp) ==
    LET status == resp.StatusCode
        r == nonInviteClientOnReceiveResponse(status)
        e1 == [entry EXCEPT !.lastResponse = <<resp>>, !.state = r.state]
    IN
    IF status < 200
    THEN [keep |-> ~r.completed,
          entry |-> IF timerEMaxInterval <= 0
                    THEN [e1 EXCEPT !.retransmitAt = ZeroTime, !.retransmitInterval = 0]
                    ELSE [e1 EXCEPT !.retransmitInterval = timerEMaxInterval,
                                    !.retransmitAt = NowAdd(timerEMaxInterval)]]
    ELSE IF timerK > 0
    THEN [keep |-> ~r.completed,
          entry |-> [e1 EXCEPT !.deadline = ZeroTime, !.retransmitAt = ZeroTime,
                               !.retransmitInterval = 0,
                               !.terminateAt = NowAdd(timerK)]]
    ELSE [keep |-> FALSE,
          entry |-> [e1 EXCEPT !.deadline = ZeroTime, !.retransmitAt = ZeroTime,
                               !.retransmitInterval = 0, !.state = "Terminated"]]

\* transactionLayer.handleResponse
handleResponse(resp) ==
    LET branch == topViaBranch(resp)
        method == cseqMethod(resp)
        key == transactionKey(branch, method)
    IN
    /\ last' = Step("handleResponse", key, resp.StatusCode)
    /\ emitted' = <<>>
    /\ UNCHANGED <<serverTxns, fromTU, sessions, callIndex, broadcast, peer, nextBranch,
                   upstreamSeen, reqLeft, ticksLeft, registrar, found, stackVars, pipeVars>>
    /\ IF branch = NoBranch \/ method = "" \/ key \notin DOMAIN clientTxns
       THEN UNCHANGED <<clientTxns, toTU, hist>>
       ELSE LET entry == clientTxns[key]
                after == IF entry.isInvite
                         THEN inviteClientAfterResponse(entry, resp)
                         ELSE nonInviteClientAfterResponse(entry, resp)
            IN /\ clientTxns' = IF after.keep
                                THEN [clientTxns EXCEPT ![key] = after.entry]
                                ELSE MapDelete(clientTxns, key)
               /\ toTU' = Append(toTU, [Kind |-> "tuEventResponse",
                                        ServerTxID |-> entry.serverTxID,
                                        ClientTxID |-> key, Message |-> resp])
               /\ hist' = IF entry.isInvite /\ resp.StatusCode >= 200
                          THEN NoteFinal(hist, entry.serverTxID, resp.StatusCode)
                          ELSE hist

----------------------------------------------------------------------------
(* Transaction layer: actions of the TU *)

\* transactionLayer.handleTUAction, case tuActionForwardRequest
forwardRequest(action) ==
    LET msg == action.Message
        via == topViaBranch(msg)
        branch == IF via # NoBranch THEN via
                  ELSE IF action.ClientTxID # <<>> /\ keyBranch(action.ClientTxID) # NoBranch
                       THEN keyBranch(action.ClientTxID)
                       ELSE BranchID(nextBranch + 1)
        fresh == via = NoBranch
                 /\ ~(action.ClientTxID # <<>> /\ keyBranch(action.ClientTxID) # NoBranch)
        method == ToUpper(msg.Method)
        key == IF action.ClientTxID # <<>> THEN action.ClientTxID
               ELSE transactionKey(branch, method)
    IN
    /\ last' = Step("forwardRequest", key, 0)
    /\ clientTxns' = MapPut(clientTxns, key,
                            newClientTransactionEntry(method, branch, msg, action.ServerTxID))
    /\ nextBranch' = IF fresh THEN nextBranch + 1 ELSE nextBranch
    /\ emitted' = <<Upstream(msg)>>
    /\ upstreamSeen' = upstreamSeen \cup {msg}
    /\ UNCHANGED <<serverTxns, hist>>

\* case tuActionSendResponse, a 3xx-6xx on an INVITE server transaction:
\* timer H and timer G start
inviteServerFailureUnarmed(e1) ==
    [e1 EXCEPT !.deadline = NowAdd(timerH), !.retransmitInterval = 0,
               !.retransmitAt = ZeroTime]
inviteServerFailureTimers(e1) ==
    [e1 EXCEPT !.deadline = NowAdd(timerH), !.retransmitInterval = timerGStart,
               !.retransmitAt = NowAdd(timerGStart)]

\* case tuActionSendResponse, a 2xx on an INVITE server transaction: the
\* entry is stored back with timer H as its deadline and no retransmission
inviteServerSuccessUntimed(e1) ==
    [e1 EXCEPT !.retransmitInterval = 0, !.retransmitAt = ZeroTime]
inviteServerSuccessTimers(e1) ==
    [e1 EXCEPT !.deadline = NowAdd(timerH), !.retransmitInterval = 0,
               !.retransmitAt = ZeroTime]

\* case tuActionSendResponse, a final on a non-INVITE server transaction:
\* timer J
nonInviteServerFinalTimers(e1) ==
    [e1 EXCEPT !.deadline = NowAdd(timerJ), !.retransmitInterval = 0,
               !.retransmitAt = ZeroTime]

\* transactionLayer.handleTUAction, case tuActionSendResponse
sendResponse(action) ==
    LET key == action.ServerTxID
        resp == action.Message
        status == resp.StatusCode
    IN
    /\ last' = Step("sendResponse", key, status)
    /\ UNCHANGED <<clientTxns, nextBranch, upstreamSeen>>
    /\ IF key \notin DOMAIN serverTxns
       THEN /\ emitted' = <<>>
            /\ UNCHANGED <<serverTxns, hist>>
       ELSE LET entry == serverTxns[key]
                e1 == [entry EXCEPT
                         !.lastResponse = <<resp>>,
                         !.state = IF entry.isInvite
                                   THEN inviteServerOnSendResponse(status)
                                   ELSE nonInviteServerOnSendResponse(status),
                         !.expires = NowAdd(serverTransactionRetention)]
                e2 == IF status < 200 THEN e1
                      ELSE IF entry.isInvite /\ status >= 300
                      THEN inviteServerFailureTimers(e1)
                      ELSE IF entry.isInvite
                      THEN inviteServerSuccessTimers(e1)
                      ELSE nonInviteServerFinalTimers(e1)
            IN /\ serverTxns' = [serverTxns EXCEPT ![key] = e2]
               /\ emitted' = <<Downstream(resp)>>
               /\ hist' = [hist EXCEPT
                             ![key].finals = IF status >= 200 THEN @ + 1 ELSE @,
                             ![key].oks = IF status >= 200 /\ status < 300 THEN @ + 1 ELSE @]

\* transactionLayer.handleTUAction: the layer takes the next action of the TU
handleTUAction ==
    /\ fromTU # <<>>
    /\ fromTU' = Tail(fromTU)
    /\ IF Head(fromTU).Kind = "tuActionForwardRequest"
       THEN forwardRequest(Head(fromTU))
       ELSE sendResponse(Head(fromTU))
    /\ UNCHANGED <<toTU, sessions, callIndex, broadcast, peer, reqLeft, respLeft, ticksLeft,
                   registrar, found, stackVars, pipeVars>>

----------------------------------------------------------------------------
(* Transaction layer: the timer tick *)

\* the time fields that are set, over both registries
ArmedTimes ==
    {t \in UNION {{serverTxns[k].expires, serverTxns[k].deadline,
                   serverTxns[k].retransmitAt} : k \in DOMAIN serverTxns}
           \cup UNION {{clientTxns[k].deadline, clientTxns[k].retransmitAt,
                        clientTxns[k].terminateAt, clientTxns[k].timerCDeadline} :
                       k \in DOMAIN clientTxns} : ~IsZero(t)}

\* the delays after which cleanupTransactions runs next.  A run at which no
\* time field is reached changes nothing but the clock, so the runs that
\* matter are those that land on a time field (and pass the earlier ones);
\* one ticker period later is the run that finds a field reached and not yet
\* acted on.
TickAdvances ==
    LET ahead == {t[1] : t \in {x \in ArmedTimes : x[1] > 0}} IN
    IF ahead = {} \/ \E x \in ArmedTimes : x[1] <= 0
    THEN ahead \cup {serverTransactionCleanupInterval}
    ELSE ahead

\* a server entry seen d units later
ServerLater(e, d) ==
    [e EXCEPT !.expires = Later(@, d), !.deadline = Later(@, d),
              !.retransmitAt = Later(@, d)]

\* a client entry seen d units later
ClientLater(e, d) ==
    [e EXCEPT !.deadline = Later(@, d), !.retransmitAt = Later(@, d),
              !.terminateAt = Later(@, d), !.timerCDeadline = Later(@, d)]

\* the next retransmission interval: start when unset, else doubled up to max
nextInterval(interval, start, max) ==
    IF interval <= 0 THEN start
    ELSE IF max > 0 /\ interval * 2 > max THEN max
    ELSE interval * 2

\* cleanupTransactions, body of the loop over serverTxns
sweepServer(e) ==
    IF ~IsZero(e.deadline) /\ NowAfter(e.deadline)
    THEN [keep |-> FALSE, entry |-> e, out |-> <<>>]
    ELSE IF ~IsZero(e.retransmitAt) /\ NowNotBefore(e.retransmitAt)
    THEN IF e.lastResponse # <<>>
         THEN LET interval == nextInterval(e.retransmitInterval, timerGStart,
                                           timerGMaxInterval)
              IN [keep |-> TRUE,
                  entry |-> [e EXCEPT !.retransmitInterval = interval,
                                      !.retransmitAt = NowAdd(interval),
                                      !.expires = NowAdd(serverTransactionRetention)],
                  out |-> <<Downstream(e.lastResponse[1])>>]
         ELSE [keep |-> TRUE,
               entry |-> [e EXCEPT !.retransmitAt = ZeroTime, !.retransmitInterval = 0],
               out |-> <<>>]
    ELSE IF NowAfter(e.expires)
    THEN [keep |-> FALSE, entry |-> e, out |-> <<>>]
    ELSE [keep |-> TRUE, entry |-> e, out |-> <<>>]

\* the synthetic 408 cleanupTransactions hands to the TU
timeoutEvent(key, e) ==
    [Kind |-> "tuEventResponse", ServerTxID |-> e.serverTxID, ClientTxID |-> key,
     Message |-> timeoutResponseFromRequest(e.request, 408)]

\* timer D or K reported to the TU like a timeout
sweepTerminatedNotifying(key, e) ==
    [keep |-> FALSE, entry |-> e, log |-> <<ToTU(timeoutEvent(key, e))>>,
     tu |-> <<timeoutEvent(key, e)>>]
\* cleanupTransactions, timer D or K reached: the entry goes, silently
sweepTerminated(key, e) ==
    [keep |-> FALSE, entry |-> e, log |-> <<>>, tu |-> <<>>]

\* timer C reached with nothing sent upstream
sweepTimerCSilent(key, e) ==
    [keep |-> FALSE, entry |-> e, log |-> <<ToTU(timeoutEvent(key, e))>>,
     tu |-> <<timeoutEvent(key, e)>>]
\* cleanupTransactions, timer C reached: CANCEL upstream, then the 408 to the
\* TU, and the entry goes
sweepTimerC(key, e) ==
    [keep |-> FALSE, entry |-> e,
     log |-> <<Upstream(cancelFromRequest(e.request)), ToTU(timeoutEvent(key, e))>>,
     tu |-> <<timeoutEvent(key, e)>>]

\* cleanupTransactions, body of the loop over clientTxns.  log is what the
\* body sends, in the order of its calls to sendToTransport and sendToTU;
\* tu is what it hands to the TU
sweepClient(key, e) ==
    IF ~IsZero(e.deadline) /\ NowNotBefore(e.deadline)
    THEN [keep |-> FALSE, entry |-> e, log |-> <<ToTU(timeoutEvent(key, e))>>,
          tu |-> <<timeoutEvent(key, e)>>]
    ELSE IF ~IsZero(e.timerCDeadline) /\ NowNotBefore(e.timerCDeadline)
    THEN sweepTimerC(key, e)
    ELSE IF ~IsZero(e.retransmitAt) /\ NowNotBefore(e.retransmitAt)
    THEN LET interval == IF e.isInvite
                         THEN nextInterval(e.retransmitInterval, timerAStart,
                                           timerAMaxInterval)
                         ELSE nextInterval(e.retransmitInterval, timerEStart,
                                           timerEMaxInterval)
         IN [keep |-> TRUE,
             entry |-> [e EXCEPT !.retransmitInterval = interval,
                                 !.retransmitAt = NowAdd(interval)],
             log |-> <<Upstream(e.request)>>, tu |-> <<>>]
    ELSE IF ~IsZero(e.terminateAt) /\ NowNotBefore(e.terminateAt)
    THEN sweepTerminated(key, e)
    ELSE [keep |-> TRUE, entry |-> e, log |-> <<>>, tu |-> <<>>]

\* the concatenation of f[ord[1]], f[ord[2]], ...
RECURSIVE Flatten(_, _)
Flatten(ord, f) ==
    IF ord = <<>> THEN <<>> ELSE f[Head(ord)] \o Flatten(Tail(ord), f)

\* transactionLayer.cleanupTransactions(ctx, now), d units after the last step
cleanupTransactions(d) ==
    LET srv == [k \in DOMAIN serverTxns |-> sweepServer(ServerLater(serverTxns[k], d))]
        cli == [k \in DOMAIN clientTxns |-> sweepClient(k, ClientLater(clientTxns[k], d))]
        srvKeep == {k \in DOMAIN serverTxns : srv[k].keep}
        cliKeep == {k \in DOMAIN clientTxns : cli[k].keep}
    IN
    \E sord \in Orders({k \in DOMAIN serverTxns : srv[k].out # <<>>}),
       cord \in Orders({k \in DOMAIN clientTxns : cli[k].log # <<>>}) :
        /\ serverTxns' = [k \in srvKeep |-> srv[k].entry]
        /\ clientTxns' = [k \in cliKeep |-> cli[k].entry]
        /\ emitted' = Flatten(sord, [k \in DOMAIN serverTxns |-> srv[k].out])
                      \o Flatten(cord, [k \in DOMAIN clientTxns |-> cli[k].log])
        /\ toTU' = toTU \o Flatten(cord, [k \in DOMAIN clientTxns |-> cli[k].tu])
        /\ hist' = [s \in DOMAIN hist |->
                      IF \E k \in DOMAIN clientTxns :
                            /\ clientTxns[k].isInvite /\ clientTxns[k].serverTxID = s
                            /\ cli[k].tu # <<>>
                      THEN [hist[s] EXCEPT !.upFinals = @ \cup {408}]
                      ELSE hist[s]]

\* the ticker case of the loop in transactionLayer.start, d units after the
\* last step
TickAfter(d) ==
    /\ cleanupTransactions(d)
    /\ ticksLeft # 0
    /\ Room
    /\ ticksLeft' = IF ticksLeft < 0 THEN ticksLeft ELSE ticksLeft - 1
    /\ last' = Step("tick", <<>>, d)
    /\ UNCHANGED <<fromTU, sessions, callIndex, broadcast, peer, nextBranch,
                   upstreamSeen, reqLeft, respLeft, registrar, found, stackVars, pipeVars>>

\* a tick, which the loop may take late: time fields may have been passed
Tick == \E d \in TickAdvances : TickAfter(d)

\* the tick of a ticker that is served every period: it comes before a
\* second time field is passed
TickOnTime == TickAfter(SetMin(TickAdvances))

----------------------------------------------------------------------------
(* Broadcast policy (src/sip/broadcast_policy.go) *)

\* strings.TrimSpace on the addresses that occur
TrimSpace(a) ==
    CASE a = " " -> ""
      [] a = " sip:b@h2 " -> "sip:b@h2"
      [] a = " SIP:1000@Example.com " -> "SIP:1000@Example.com"
      [] a = "sip:1000@example.com " -> "sip:1000@example.com"
      [] OTHER -> a

\* strings.ToLower on the addresses, names and Call-IDs that occur
ToLower(a) ==
    CASE a = "SIP:1000@Example.com" -> "sip:1000@example.com"
      [] a = "Alice" -> "alice"
      [] a = "Example.COM" -> "example.com"
      [] a = "<SIP:Alice@Client.Example.com>" -> "<sip:alice@client.example.com>"
      [] a = "Expires" -> "expires"
      [] a = "A84B4C76E66710" -> "a84b4c76e66710"
      [] OTHER -> a

\* the address taken as written
normaliseBroadcastAddressRaw(address) == address
normaliseBroadcastAddress(address) ==
    IF TrimSpace(address) = "" THEN "" ELSE ToLower(TrimSpace(address))

\* the inner loop of NewBroadcastPolicy: the non-blank targets, trimmed
RECURSIVE cleanTargets(_)
cleanTargets(targets) ==
    IF targets = <<>> THEN <<>>
    ELSE IF TrimSpace(Head(targets)) = "" THEN cleanTargets(Tail(targets))
    ELSE <<TrimSpace(Head(targets))>> \o cleanTargets(Tail(targets))

\* NewBroadcastPolicy: the targets map; a later rule replaces an earlier one
RECURSIVE NewBroadcastPolicy(_)
NewBroadcastPolicy(rules) ==
    IF rules = <<>> THEN <<>>
    ELSE LET rule == rules[Len(rules)]
             rest == NewBroadcastPolicy(SubSeq(rules, 1, Len(rules) - 1))
             addr == normaliseBroadcastAddress(rule.Address)
         IN IF addr = "" THEN rest
            ELSE MapPut(rest, addr, cleanTargets(rule.Targets))

\* BroadcastPolicy.Targets
Targets(policy, address) ==
    LET addr == normaliseBroadcastAddress(address) IN
    IF DOMAIN policy = {} \/ addr = "" \/ addr \notin DOMAIN policy THEN <<>>
    ELSE policy[addr]

\* BroadcastPolicy.Has
Has(policy, address) ==
    LET addr == normaliseBroadcastAddress(address) IN
    DOMAIN policy # {} /\ addr # "" /\ addr \in DOMAIN policy

----------------------------------------------------------------------------
(* Transaction user: helpers *)

prependVia(msg, branch) == [msg EXCEPT !.Via = <<branch>> \o @]

\* the Via values without the first one whose branch is the given one
RECURSIVE removeFirst(_, _)
removeFirst(values, branch) ==
    IF values = <<>> THEN <<>>
    ELSE IF Head(values) = branch THEN Tail(values)
    ELSE <<Head(values)>> \o removeFirst(Tail(values), branch)

\* a response relayed with its Via headers as they came
removeTopViaKept(msg, branch) == msg
removeTopViaWithBranch(msg, branch) ==
    IF branch = NoBranch \/ msg.Via = <<>> THEN msg
    ELSE [msg EXCEPT !.Via = removeFirst(@, branch)]

\* a decrement that does not stop at 0
decrementMaxForwardsBelowZero(msg) ==
    IF msg.MaxForwards = <<>> THEN msg
    ELSE [msg EXCEPT !.MaxForwards = <<@[1] - 1>>]
decrementMaxForwards(msg) ==
    IF msg.MaxForwards = <<>> THEN msg
    ELSE IF msg.MaxForwards[1] > 0
    THEN [msg EXCEPT !.MaxForwards = <<@[1] - 1>>]
    ELSE msg

\* callKeyFromMessage: <<>> is the empty key
callKeyFromMessage(msg) ==
    IF msg.CallID = "" \/ msg.CSeqMethod = "" THEN <<>>
    ELSE <<ToLower(msg.CallID), msg.CSeqNum>>

\* formatCSeq writes the number, 1 if it is not positive
formatCSeqNumber(number) == IF number <= 0 THEN 1 ELSE number

\* contactAddress: the first segment of the value, trimmed
contactAddress(value) == IF value = <<>> THEN "" ELSE TrimSpace(value[1])

allForksFinal(session) == \A id \in DOMAIN session.forks : session.forks[id].final

ForwardRequest(serverTxID, clientTxID, msg) ==
    [Kind |-> "tuActionForwardRequest", ServerTxID |-> serverTxID,
     ClientTxID |-> clientTxID, Message |-> msg]

SendResponse(serverTxID, clientTxID, msg) ==
    [Kind |-> "tuActionSendResponse", ServerTxID |-> serverTxID,
     ClientTxID |-> clientTxID, Message |-> msg]

\* the CANCEL built by transactionUser.sendCancelForFork
cancelForFork(session, fork) ==
    [fork.invite EXCEPT !.Method = "CANCEL", !.RequestURI = fork.requestURI,
                        !.Body = "", !.StatusCode = 0,
                        !.CSeqNum = formatCSeqNumber(session.cseqNumber),
                        !.CSeqMethod = "CANCEL"]

\* the guard without the test for a final fork
cancelSkippedUnlessFinal(fork) == fork.cancelled
\* the guard without the test for a cancelled fork
cancelSkippedIfFinal(fork) == fork.final
\* sendCancelForFork does nothing for a fork that is final or cancelled
cancelSkipped(fork) == fork.final \/ fork.cancelled

\* transactionUser.sendCancelForFork for the forks ids[1], ids[2], ... except
\* skip: the session afterwards and the actions sent
RECURSIVE sendCancelForForks(_, _, _, _)
sendCancelForForks(serverTxID, session, ids, skip) ==
    IF ids = <<>> THEN [session |-> session, actions |-> <<>>]
    ELSE LET id == Head(ids)
             fork == session.forks[id]
         IN IF id = skip \/ cancelSkipped(fork)
            THEN sendCancelForForks(serverTxID, session, Tail(ids), skip)
            ELSE LET s1 == [session EXCEPT !.forks[id].cancelled = TRUE]
                     rest == sendCancelForForks(serverTxID, s1, Tail(ids), skip)
                 IN [session |-> rest.session,
                     actions |-> <<ForwardRequest(serverTxID,
                                                  transactionKey(fork.branch, "CANCEL"),
                                                  cancelForFork(session, fork))>>
                                 \o rest.actions]

\* the BYE built by transactionUser.sendByeForFork with the fresh branch
byeForFork(session, fork, resp, branch) ==
    decrementMaxForwards(prependVia(
        [fork.invite EXCEPT
            !.Method = "BYE",
            !.RequestURI = IF resp.Contact = <<>> THEN fork.requestURI
                           ELSE IF contactAddress(resp.Contact[1]) = ""
                           THEN resp.Contact[1]
                           ELSE contactAddress(resp.Contact[1]),
            !.Body = "", !.StatusCode = 0,
            !.CSeqNum = formatCSeqNumber(session.cseqNumber + 1),
            !.CSeqMethod = "BYE"],
        branch))

----------------------------------------------------------------------------
(* Transaction user: broadcast sessions *)

\* the forks handleBroadcastInvite creates for targets[i..], the first of them
\* with branch BranchID(n + 1): the fork table, its order and the actions
RECURSIVE forkTargets(_, _, _, _)
forkTargets(serverTxID, req, targets, n) ==
    IF targets = <<>> THEN [forks |-> <<>>, forkOrder |-> <<>>, actions |-> <<>>]
    ELSE LET target == Head(targets)
             branch == BranchID(n + 1)
             clone == decrementMaxForwards(prependVia(
                          [req EXCEPT !.RequestURI = target], branch))
             clientTxID == transactionKey(branch, ToUpper(clone.Method))
             fork == [clientTxID |-> clientTxID, branch |-> branch,
                      requestURI |-> target, invite |-> clone,
                      final |-> FALSE, cancelled |-> FALSE]
             rest == forkTargets(serverTxID, req, Tail(targets), n + 1)
         IN [forks |-> MapPut(rest.forks, clientTxID, fork),
             forkOrder |-> <<clientTxID>> \o rest.forkOrder,
             actions |-> <<ForwardRequest(serverTxID, clientTxID, clone)>>
                         \o rest.actions]

\* the 404 / 200 the TU builds itself from a request
localResponse(req, status) == CopyHeaders(NewResponse(status), req)

\* transactionUser.handleBroadcastInvite returned true
broadcastInviteHandled(req) ==
    Targets(broadcast, req.RequestURI) # <<>> \/ Has(broadcast, req.RequestURI)

\* transactionUser.handleBroadcastInvite, when it handles the INVITE
handleBroadcastInvite(event, req) ==
    LET targets == Targets(broadcast, req.RequestURI)
        callKey == callKeyFromMessage(req)
        made == forkTargets(event.ServerTxID, req, targets, nextBranch)
        session == [original |-> req, callKey |-> callKey,
                    cseqNumber |-> IF req.CSeqMethod = "" THEN 0 ELSE req.CSeqNum,
                    forks |-> made.forks, forkOrder |-> made.forkOrder,
                    winner |-> <<>>, finalised |-> FALSE, canceled |-> FALSE,
                    bestStatus |-> 0 - 1, bestResponse |-> <<>>,
                    winningResp |-> <<>>]
    IN
    IF targets = <<>>
    THEN /\ fromTU' = Append(fromTU, SendResponse(event.ServerTxID, <<>>,
                                                  localResponse(req, 404)))
         /\ UNCHANGED <<sessions, callIndex, nextBranch, hist>>
    ELSE /\ sessions' = MapPut(sessions, event.ServerTxID, session)
         /\ callIndex' = IF callKey # <<>>
                         THEN MapPut(callIndex, callKey, event.ServerTxID)
                         ELSE callIndex
         /\ nextBranch' = nextBranch + Len(targets)
         /\ fromTU' = fromTU \o made.actions
         /\ hist' = [hist EXCEPT ![event.ServerTxID].forked = TRUE]

\* a TU that resolves no CANCEL to a session
broadcastCancelHandledNever(req) == FALSE
\* transactionUser.handleBroadcastCancel returned true
broadcastCancelHandled(req) ==
    /\ DOMAIN sessions # {}
    /\ callKeyFromMessage(req) # <<>>
    /\ callKeyFromMessage(req) \in DOMAIN callIndex
    /\ callIndex[callKeyFromMessage(req)] \in DOMAIN sessions

\* transactionUser.handleBroadcastCancel, when it handles the CANCEL
handleBroadcastCancel(event, req) ==
    LET serverTxID == callIndex[callKeyFromMessage(req)]
        session == [sessions[serverTxID] EXCEPT !.canceled = TRUE]
    IN
    \E ord \in Orders({id \in DOMAIN session.forks : ~cancelSkipped(session.forks[id])}) :
        LET done == sendCancelForForks(serverTxID, session, ord, <<>>) IN
        /\ sessions' = [sessions EXCEPT ![serverTxID] = done.session]
        /\ fromTU' = Append(fromTU, SendResponse(event.ServerTxID, <<>>,
                                                 localResponse(req, 200)))
                     \o done.actions
        /\ UNCHANGED <<callIndex, nextBranch, hist>>

\* transactionUser.cleanupBroadcastSession: the two indexes afterwards
cleanupBroadcastSession(serverTxID, session) ==
    [sessions |-> MapDelete(sessions, serverTxID),
     callIndex |-> IF session.callKey # <<>>
                   THEN MapDelete(callIndex, session.callKey)
                   ELSE callIndex]

\* transactionUser.handleBroadcastResponse returned true
broadcastResponseHandled(event) == event.ServerTxID \in DOMAIN sessions

\* handleBroadcastResponse from "fork.final = true" on: the session, the
\* actions and the branches used, for one order of ranging over the forks
broadcastFinal(event, resp, session0, ord) ==
    LET id == event.ClientTxID
        status == resp.StatusCode
        session == [session0 EXCEPT !.forks[id].final = TRUE]
        fork == session.forks[id]
    IN
    IF status < 300
    THEN IF session.winner = <<>>
         THEN LET s1 == [session EXCEPT !.winner = id, !.winningResp = <<resp>>,
                                        !.finalised = TRUE]
                  done == sendCancelForForks(event.ServerTxID, s1, ord, id)
              IN [session |-> done.session,
                  actions |-> <<SendResponse(event.ServerTxID, id, resp)>>
                              \o done.actions,
                  branches |-> 0]
         ELSE IF id # session.winner
         THEN [session |-> session,
               actions |-> <<ForwardRequest(event.ServerTxID,
                                 transactionKey(BranchID(nextBranch + 1), "BYE"),
                                 byeForFork(session, fork, resp,
                                            BranchID(nextBranch + 1)))>>,
               branches |-> 1]
         ELSE [session |-> session, actions |-> <<>>, branches |-> 0]
    ELSE LET s1 == IF session.bestResponse = <<>> \/ status > session.bestStatus
                   THEN [session EXCEPT !.bestStatus = status,
                                        !.bestResponse = <<resp>>]
                   ELSE session
         IN IF s1.winner = <<>> /\ allForksFinal(s1)
            THEN [session |-> [s1 EXCEPT !.finalised = TRUE],
                  actions |-> <<SendResponse(event.ServerTxID, <<>>,
                                             s1.bestResponse[1])>>,
                  branches |-> 0]
            ELSE [session |-> s1, actions |-> <<>>, branches |-> 0]

\* transactionUser.handleBroadcastResponse, when it handles the response
handleBroadcastResponse(event) ==
    LET session == sessions[event.ServerTxID]
        id == event.ClientTxID
        method == ToUpper(cseqMethod(event.Message))
    IN
    IF method = "CANCEL" \/ id \notin DOMAIN session.forks
    THEN UNCHANGED <<sessions, callIndex, fromTU, nextBranch, hist>>
    ELSE LET resp == removeTopViaWithBranch(event.Message, session.forks[id].branch)
             status == resp.StatusCode
         IN
         IF status < 200
         THEN /\ fromTU' = IF session.finalised THEN fromTU
                           ELSE Append(fromTU, SendResponse(event.ServerTxID, id, resp))
              /\ UNCHANGED <<sessions, callIndex, nextBranch, hist>>
         ELSE \E ord \in Orders({o \in DOMAIN session.forks \ {id} :
                                    ~cancelSkipped(session.forks[o])}) :
                LET done == broadcastFinal(event, resp, session, ord)
                    gone == done.session.finalised /\ allForksFinal(done.session)
                    after == cleanupBroadcastSession(event.ServerTxID, done.session)
                IN /\ sessions' = IF gone THEN after.sessions
                                  ELSE [sessions EXCEPT ![event.ServerTxID] = done.session]
                   /\ callIndex' = IF gone THEN after.callIndex ELSE callIndex
                   /\ fromTU' = fromTU \o done.actions
                   /\ nextBranch' = nextBranch + done.branches
                   /\ UNCHANGED hist

----------------------------------------------------------------------------
(* Registrar (src/unnamed/part_005) *)

\* md5Hex: the digest of its input
md5Hex(input) == <<"md5", input>>

\* a stored password that is 32 hexadecimal digits: the digests that occur
isHex(stored) == stored # <<>> /\ stored[1] = "md5"

\* userdb.HashPassword: MD5 of username:realm:password
HashPassword(username, realm, password) == md5Hex(<<<<username>>, <<realm>>, password>>)

\* userdb.ComputeHA1; <<>> is the empty string
ComputeHA1(username, realm, stored) ==
    IF stored = <<>> THEN <<>>
    ELSE IF isHex(stored) THEN stored
    ELSE HashPassword(username, realm, stored)

\* parseAddressOfRecord on the To values that occur: <<username, domain>>, or
\* <<>> for an error
parseAddressOfRecord(to) ==
    IF to = <<>> THEN <<>>
    ELSE CASE to[1] = "<sip:alice@example.com>" -> <<"alice", "example.com">>
           [] to[1] = "<sip:Alice@Example.COM>" -> <<"Alice", "Example.COM">>
           [] to[1] = "<sip:bob@example.com>" -> <<"bob", "example.com">>
           [] to[1] = "<sip:mallory@example.com>" -> <<"mallory", "example.com">>
           [] OTHER -> <<>>

registrarKey(username, domain) ==
    <<ToLower(TrimSpace(username)), ToLower(TrimSpace(domain))>>

\* RegistrarStore.Lookup of the memory store: <<user>>, or <<>> for
\* userdb.ErrUserNotFound
Lookup(store, username, domain) ==
    IF registrarKey(username, domain) \in DOMAIN store
    THEN <<store[registrarKey(username, domain)]>>
    ELSE <<>>

\* the parameters of an Authorization header; a parameter that is missing
\* reads as "" (<<>> for the response digest), as in a Go map
NoParams ==
    [username |-> "", realm |-> "", nonce |-> "", uri |-> "", response |-> <<>>,
     algorithm |-> "", qop |-> "", nc |-> "", cnonce |-> ""]

\* parseDigestAuthorization: <<params>>, or <<>> when the header is absent,
\* is not a Digest header, or has no parameter
parseDigestAuthorization(header) ==
    IF header = <<>> THEN <<>>
    ELSE IF ~EqualFold(header[1].scheme, "digest") THEN <<>>
    ELSE IF header[1].params = NoParams THEN <<>>
    ELSE <<header[1].params>>

\* a digest that is not compared
verifyDigestAlways(params, req, user, realm) == TRUE
\* verifyDigest: TRUE when it returns nil
verifyDigest(params, req, user, realm) ==
    LET uri == IF params.uri = "" THEN req.RequestURI ELSE params.uri
        ha1 == ComputeHA1(user.Username, realm, user.PasswordHash)
        ha2 == md5Hex(<<<<ToUpper(req.Method)>>, <<uri>>>>)
        qop == ToLower(params.qop)
    IN
    IF params.algorithm # "" /\ ~EqualFold(params.algorithm, "md5") THEN FALSE
    ELSE IF params.nonce = "" \/ params.response = <<>> THEN FALSE
    ELSE IF ha1 = <<>> THEN FALSE
    ELSE IF qop = ""
    THEN params.response = md5Hex(<<ha1, <<params.nonce>>, ha2>>)
    ELSE IF qop = "auth"
    THEN IF params.nc = "" \/ params.cnonce = "" THEN FALSE
         ELSE params.response = md5Hex(<<ha1, <<params.nonce>>, <<params.nc>>,
                                         <<params.cnonce>>, <<qop>>, ha2>>)
    ELSE FALSE

\* strconv.Atoi: <<n>>, or <<>> for an error
Atoi(raw) == IF raw.isNumber THEN <<raw.number>> ELSE <<>>

\* parseExpires: -1 when absent or not a number, 0 for a negative number
parseExpires(raw) ==
    IF raw = Blank THEN 0 - 1
    ELSE IF Atoi(raw) = <<>> THEN 0 - 1
    ELSE IF Atoi(raw)[1] < 0 THEN 0
    ELSE Atoi(raw)[1]

\* GetHeaderParam(value, param): the value of the first segment param=...
RECURSIVE GetHeaderParam(_, _)
GetHeaderParam(value, param) ==
    IF Len(value) < 2 THEN Blank
    ELSE IF ToLower(value[2][1]) = ToLower(param) THEN value[2][2]
    ELSE GetHeaderParam(<<value[1]>> \o SubSeq(value, 3, Len(value)), param)

\* expandContactValues: the values of the Contact headers that are not blank
expandContactValues(values) == SelectSeq(values, LAMBDA v : v # <<>>)

contactKey(value) == ToLower(contactAddress(value))

\* removeBindingByAddress
removeBindingByAddress(bindings, address) ==
    IF contactKey(<<address>>) = "" THEN bindings
    ELSE SelectSeq(bindings, LAMBDA b : contactKey(b.contact) # contactKey(<<address>>))

\* normalizeContact: the address, the parameters other than expires, and
\* expires=<expires>
normalizeContact(value, expires) ==
    IF value = <<>> THEN <<>>
    ELSE <<TrimSpace(value[1])>>
         \o SelectSeq(SubSeq(value, 2, Len(value)),
                      LAMBDA seg : ToLower(seg[1]) # "expires")
         \o <<<<"expires", Number(expires)>>>>

withContactExpires(value, expires) ==
    normalizeContact(value, IF expires < 0 THEN 0 ELSE expires)

\* the bindings that have not expired at now (binding.expires.After(now))
unexpiredOrDue(bindings, now) == SelectSeq(bindings, LAMBDA b : b.expires >= now)
unexpired(bindings, now) == SelectSeq(bindings, LAMBDA b : b.expires > now)

\* the loop of applyRegistration over the contacts: err is the status of the
\* registrarError, 0 for none
RECURSIVE applyContacts(_, _, _, _)
applyContacts(result, contacts, defaultExpires, now) ==
    IF contacts = <<>> THEN [err |-> 0, result |-> result]
    ELSE LET raw == Head(contacts)
             address == contactAddress(raw)
             own == parseExpires(GetHeaderParam(raw, "expires"))
             expires == IF own >= 0 THEN own
                        ELSE IF defaultExpires >= 0 THEN defaultExpires
                        ELSE 3600
             removed == removeBindingByAddress(result, address)
         IN IF address = "" THEN [err |-> 400, result |-> <<>>]
            ELSE IF expires = 0
            THEN applyContacts(removed, Tail(contacts), defaultExpires, now)
            ELSE applyContacts(
                     Append(removed, [contact |-> normalizeContact(raw, expires),
                                      expires |-> now + expires]),
                     Tail(contacts), defaultExpires, now)

\* the one contact of the request is "*"
isWildcard(contacts) ==
    Len(contacts) = 1 /\ Len(contacts[1]) = 1 /\ TrimSpace(contacts[1][1]) = "*"

\* Registrar.applyRegistration: the bindings map after the call, the bindings
\* returned, and the status of the error (0: nil)
applyRegistration(r, key, req) ==
    LET existing == IF key \in DOMAIN r.bindings THEN r.bindings[key] ELSE <<>>
        filtered == unexpired(existing, r.now)
        contacts == expandContactValues(req.Contact)
        defaultExpires == parseExpires(req.Expires)
        applied == applyContacts(filtered, contacts, defaultExpires, r.now)
    IN
    IF contacts = <<>>
    THEN [bindings |-> MapPut(r.bindings, key, filtered), result |-> filtered, err |-> 0]
    ELSE IF isWildcard(contacts)
    THEN IF defaultExpires # 0
         THEN [bindings |-> r.bindings, result |-> <<>>, err |-> 400]
         ELSE [bindings |-> MapDelete(r.bindings, key), result |-> <<>>, err |-> 0]
    ELSE IF applied.err # 0
    THEN [bindings |-> r.bindings, result |-> <<>>, err |-> applied.err]
    ELSE [bindings |-> MapPut(r.bindings, key, applied.result),
          result |-> applied.result, err |-> 0]

\* registrarResponse
registrarResponse(req, status) == CopyHeaders(NewResponse(status), req)

\* ensureToTag: a tag parameter for the To header that has none
ensureToTag(resp) ==
    IF resp.To = <<>> THEN resp
    ELSE IF GetHeaderParam(resp.To, "tag") # Blank THEN resp
    ELSE [resp EXCEPT !.To = @ \o <<<<"tag", Text("newTag")>>>>]

\* the Contact header of the 200: each binding with the seconds it has left
RECURSIVE remainingContacts(_, _)
remainingContacts(bindings, now) ==
    IF bindings = <<>> THEN <<>>
    ELSE <<withContactExpires(Head(bindings).contact, Head(bindings).expires - now)>>
         \o remainingContacts(Tail(bindings), now)

\* Registrar.handleRegister with nonce what r.nonce() returns: the response
\* and the registrar after the call
handleRegister(r, req, nonce) ==
    LET aor == parseAddressOfRecord(req.To)
        looked == Lookup(r.store[1], aor[1], aor[2])
        user == looked[1]
        authParams == parseDigestAuthorization(req.Authorization)
        realm == IF authParams[1].realm = "" THEN aor[2] ELSE authParams[1].realm
        reg == applyRegistration(r, registrarKey(user.Username, user.Domain), req)
        ok == registrarResponse(req, 200)
    IN
    IF aor = <<>>
    THEN [resp |-> registrarResponse(req, 400), registrar |-> r]
    ELSE IF r.store = <<>>
    THEN [resp |-> registrarResponse(req, 500), registrar |-> r]
    ELSE IF looked = <<>>
    THEN [resp |-> registrarResponse(req, 404), registrar |-> r]
    ELSE IF authParams = <<>>
    THEN [resp |-> ensureToTag([registrarResponse(req, 401) EXCEPT
                       !.WWWAuthenticate = <<[realm |-> aor[2], nonce |-> nonce]>>]),
          registrar |-> r]
    ELSE IF ~EqualFold(authParams[1].username, user.Username)
            \/ ~EqualFold(realm, user.Domain)
    THEN [resp |-> ensureToTag(registrarResponse(req, 403)), registrar |-> r]
    ELSE IF ~verifyDigest(authParams[1], req, user, realm)
    THEN [resp |-> ensureToTag(registrarResponse(req, 403)), registrar |-> r]
    ELSE IF reg.err # 0
    THEN [resp |-> ensureToTag(registrarResponse(req, reg.err)),
          registrar |-> [r EXCEPT !.bindings = reg.bindings]]
    ELSE [resp |-> ensureToTag(
                       IF reg.result # <<>>
                       THEN [ok EXCEPT !.Contact = remainingContacts(reg.result, r.now)]
                       ELSE ok),
          registrar |-> [r EXCEPT !.bindings = reg.bindings]]

\* Registrar.BindingsFor: the registrations returned and the registrar after
\* the call
BindingsFor(r, username, domain) ==
    LET key == registrarKey(username, domain)
        existing == IF key \in DOMAIN r.bindings THEN r.bindings[key] ELSE <<>>
        filtered == unexpired(existing, r.now)
    IN
    IF filtered = <<>>
    THEN [out |-> <<>>, registrar |-> [r EXCEPT !.bindings = MapDelete(@, key)]]
    ELSE [out |-> [i \in 1..Len(filtered) |->
                      [Contact |-> filtered[i].contact, Expires |-> filtered[i].expires]],
          registrar |-> [r EXCEPT !.bindings = MapPut(@, key, filtered)]]

----------------------------------------------------------------------------
(* Next-hop routing (src/sip/stack.go) *)

\* parseSIPURI on the URIs that occur: <<user, host, port>>, or <<>> for an
\* error; the port is 5060 for a URI without one
parseSIPURI(uri) ==
    CASE uri = "sip:bob@example.com" -> <<"bob", "example.com", "5060">>
      [] uri = "sip:bob@Example.COM" -> <<"bob", "Example.COM", "5060">>
      [] uri = "sip:carol@example.org" -> <<"carol", "example.org", "5060">>
      [] uri = "sip:example.com" -> <<"", "example.com", "5060">>
      [] uri = "sip:bob@203.0.113.5:5090" -> <<"bob", "203.0.113.5", "5090">>
      [] uri = "sip:bob@198.51.100.10:5090" -> <<"bob", "198.51.100.10", "5090">>
      [] uri = "<sip:bob@192.0.2.55:5070>" -> <<"bob", "192.0.2.55", "5070">>
      [] uri = "<sip:bob@192.0.2.66>" -> <<"bob", "192.0.2.66", "5060">>
      [] uri = "<sip:bob@desk.invalid>" -> <<"bob", "desk.invalid", "5060">>
      [] uri = "sip:carol@home.invalid" -> <<"carol", "home.invalid", "5060">>
      [] OTHER -> <<>>

\* the hosts net.ResolveUDPAddr finds an address for
Resolvable ==
    {"example.com", "203.0.113.5", "198.51.100.10", "192.0.2.55", "192.0.2.66"}

\* net.ResolveUDPAddr("udp", net.JoinHostPort(host, port)): <<addr>>, or <<>>
\* for an error
ResolveUDPAddr(host, port) ==
    IF host \in Resolvable THEN <<[host |-> host, port |-> port]>> ELSE <<>>

\* sipURIToUDPAddr: <<addr>>, or <<>> for an error
sipURIToUDPAddr(uri) ==
    IF parseSIPURI(uri) = <<>> THEN <<>>
    ELSE IF parseSIPURI(uri)[2] = "" THEN <<>>
    ELSE ResolveUDPAddr(parseSIPURI(uri)[2], parseSIPURI(uri)[3])

\* SIPStack.cloneDefaultUpstream
cloneDefaultUpstream(s) ==
    IF s.upstreamAddr = <<>> THEN [addr |-> <<>>, err |-> TRUE]
    ELSE [addr |-> s.upstreamAddr, err |-> FALSE]

\* the loop of resolveRegistrarTarget over the bindings
RECURSIVE firstResolving(_)
firstResolving(bindings) ==
    IF bindings = <<>> THEN <<>>
    ELSE LET binding == Head(bindings)
             contact == IF contactAddress(binding.Contact) = ""
                        THEN IF binding.Contact = <<>> THEN "" ELSE binding.Contact[1]
                        ELSE contactAddress(binding.Contact)
         IN IF sipURIToUDPAddr(contact) # <<>> THEN sipURIToUDPAddr(contact)
            ELSE firstResolving(Tail(bindings))

\* a stack that never asks the registrar
resolveRegistrarTargetNever(r, user, domain) == [addr |-> <<>>, registrar |-> r]
\* SIPStack.resolveRegistrarTarget with the registrar r (<<>> for nil): the
\* address (<<>> for nil) and the registrar after the call
resolveRegistrarTarget(r, user, domain) ==
    IF r = <<>> \/ user = "" \/ domain = "" THEN [addr |-> <<>>, registrar |-> r]
    ELSE [addr |-> firstResolving(BindingsFor(r[1], user, domain).out),
          registrar |-> <<BindingsFor(r[1], user, domain).registrar>>]

\* SIPStack.resolveDirectoryTarget
resolveDirectoryTarget(s, user, domain) ==
    IF user = "" \/ domain = "" THEN <<>>
    ELSE IF registrarKey(user, domain) \notin DOMAIN s.directory THEN <<>>
    ELSE IF s.directory[registrarKey(user, domain)].ContactURI = "" THEN <<>>
    ELSE sipURIToUDPAddr(s.directory[registrarKey(user, domain)].ContactURI)

\* SIPStack.selectUpstreamTarget: the address, whether an error is returned,
\* and the registrar after the call
selectUpstreamTarget(s, r, msg) ==
    LET parsed == parseSIPURI(msg.RequestURI)
        user == parsed[1]
        host == parsed[2]
        port == parsed[3]
        lowerHost == ToLower(host)
        asked == resolveRegistrarTarget(r, user, lowerHost)
        listed == resolveDirectoryTarget(s, user, lowerHost)
        fallback == cloneDefaultUpstream(s)
    IN
    IF ~msg.isRequest
    THEN [addr |-> fallback.addr, err |-> fallback.err, registrar |-> r]
    ELSE IF parsed = <<>>
    THEN [addr |-> fallback.addr, err |-> fallback.err, registrar |-> r]
    ELSE IF lowerHost \in s.managedDomains /\ asked.addr # <<>>
    THEN [addr |-> asked.addr, err |-> FALSE, registrar |-> asked.registrar]
    ELSE IF lowerHost \in s.managedDomains /\ listed # <<>>
    THEN [addr |-> listed, err |-> FALSE, registrar |-> asked.registrar]
    ELSE LET after == IF lowerHost \in s.managedDomains THEN asked.registrar ELSE r IN
         IF host # "" /\ ResolveUDPAddr(host, port) # <<>>
         THEN [addr |-> ResolveUDPAddr(host, port), err |-> FALSE, registrar |-> after]
         ELSE [addr |-> fallback.addr, err |-> fallback.err, registrar |-> after]

\* SIPStack.Start: the directory and the managed domains of the users loaded
\* from the user database, and the upstream address of the configuration
RECURSIVE directoryOf(_)
directoryOf(users) ==
    IF users = <<>> THEN <<>>
    ELSE LET user == users[Len(users)] IN
         MapPut(directoryOf(SubSeq(users, 1, Len(users) - 1)),
                registrarKey(user.Username, user.Domain), user)

NewStack(users, upstreamAddr) ==
    [managedDomains |-> {ToLower(TrimSpace(users[i].Domain)) : i \in 1..Len(users)} \ {""},
     directory |-> directoryOf(users),
     upstreamAddr |-> upstreamAddr]

----------------------------------------------------------------------------
(* Transaction user: the event loop *)

\* the values newNonce returns
Nonces == {"nonce1", "nonce2"}

\* a TU that gives no request to the registrar
registrarHandlesNothing(req) == FALSE
\* the test that gives a request to the registrar
registrarHandles(req) == registrar # <<>> /\ EqualFold(req.Method, "REGISTER")

\* transactionUser.handleEvent, case tuEventRequest
handleRequestEvent(event) ==
    LET req == event.Message
        branch == BranchID(nextBranch + 1)
        fwd == decrementMaxForwards(prependVia(req, branch))
    IN
    IF registrarHandles(req)
    THEN \E nonce \in Nonces :
            LET done == handleRegister(registrar[1], req, nonce) IN
            /\ registrar' = <<done.registrar>>
            /\ fromTU' = Append(fromTU, SendResponse(event.ServerTxID, <<>>, done.resp))
            /\ UNCHANGED <<sessions, callIndex, nextBranch, hist>>
    ELSE /\ UNCHANGED registrar
         /\ IF EqualFold(req.Method, "CANCEL") /\ broadcastCancelHandled(req)
            THEN handleBroadcastCancel(event, req)
            ELSE IF EqualFold(req.Method, "INVITE") /\ broadcastInviteHandled(req)
            THEN handleBroadcastInvite(event, req)
            ELSE /\ fromTU' = Append(fromTU, ForwardRequest(event.ServerTxID,
                                         transactionKey(branch, ToUpper(req.Method)), fwd))
                 /\ nextBranch' = nextBranch + 1
                 /\ UNCHANGED <<sessions, callIndex, hist>>

\* transactionUser.handleEvent, case tuEventResponse
handleResponseEvent(event) ==
    IF broadcastResponseHandled(event)
    THEN handleBroadcastResponse(event) /\ UNCHANGED registrar
    ELSE /\ fromTU' = Append(fromTU, SendResponse(event.ServerTxID, event.ClientTxID,
                          removeTopViaWithBranch(event.Message,
                                                 keyBranch(event.ClientTxID))))
         /\ UNCHANGED <<sessions, callIndex, nextBranch, hist, registrar>>

\* transactionUser.handleEvent: the TU takes the next event of the layer
handleEvent ==
    /\ toTU # <<>>
    /\ toTU' = Tail(toTU)
    /\ IF Head(toTU).Kind = "tuEventRequest"
       THEN handleRequestEvent(Head(toTU))
       ELSE handleResponseEvent(Head(toTU))
    /\ last' = Step("handleEvent", Head(toTU).ServerTxID, Head(toTU).Message.StatusCode)
    /\ emitted' = <<>>
    /\ UNCHANGED <<serverTxns, clientTxns, broadcast, peer, upstreamSeen, reqLeft,
                   respLeft, ticksLeft, found, stackVars, pipeVars>>

----------------------------------------------------------------------------
(* The environment: peers downstream and upstream *)

ClientBranch == <<"z9hG4bKclient", 1>>

\* newInvite / newOptions of the tests, and a CANCEL and an ACK for the INVITE
DownRequest(method, uri, via, callID) ==
    [NewRequest(method, uri) EXCEPT !.Via = via, !.CallID = callID,
                                    !.CSeqNum = 314159,
                                    !.CSeqMethod = IF method = "ACK" THEN "ACK"
                                                   ELSE ToUpper(method),
                                    !.MaxForwards = <<70>>]

Invite(uri) == DownRequest("INVITE", uri, <<ClientBranch>>, "a84b4c76e66710")
Options == DownRequest("OPTIONS", "sip:bob@example.com", <<ClientBranch>>, "a84b4c76e66710")
Ack == DownRequest("ACK", "sip:bob@example.com", <<ClientBranch>>, "a84b4c76e66710")
Cancel(callID) == DownRequest("CANCEL", "sip:1000@example.com", <<ClientBranch>>, callID)
NoBranchOptions == DownRequest("OPTIONS", "sip:bob@example.com", <<NoBranch>>, "a84b4c76e66710")

\* what a downstream peer sends in a call that is relayed to one target
RelayPeers == {{Invite("sip:bob@example.com"), Ack}, {Options, NoBranchOptions}}

\* what a downstream peer sends in a call to the broadcast address
ForkPeers == {{Invite("sip:1000@example.com "), Cancel("A84B4C76E66710")}}

\* the Via of an earlier hop, below the Via of the downstream peer
Hop(i) == <<"z9hG4bKhop", i>>

\* a request that reached the proxy over the hops of via, with the
\* Max-Forwards value maxForwards (<<>> for no header)
Routed(req, via, maxForwards) == [req EXCEPT !.Via = via, !.MaxForwards = maxForwards]

\* what downstream peers behind other proxies send: Via stacks of one to
\* three values, one of them without a branch below the top, and
\* Max-Forwards absent, 0, 1 and 70
HeaderPeers ==
    {{Routed(Options, <<<<"z9hG4bKclient", 1>>>>, <<>>),
      Routed(Options, <<<<"z9hG4bKclient", 2>>, Hop(1)>>, <<0>>),
      Routed(Invite("sip:bob@example.com"),
             <<<<"z9hG4bKclient", 3>>, Hop(1), NoBranch, Hop(2)>>, <<1>>)},
     {Routed(Invite("sip:1000@example.com "), <<<<"z9hG4bKclient", 4>>, Hop(1)>>, <<70>>),
      Routed(Invite("sip:1000@example.com "),
             <<<<"z9hG4bKclient", 5>>, Hop(2), Hop(1)>>, <<0>>)}}

\* newRegisterRequest of the tests, with the branch z9hG4bKreg<i>
Register(i, to, contacts, expires, auth) ==
    [DownRequest("REGISTER", "sip:example.com", <<<<"z9hG4bKreg", i>>>>, "reg-call-id")
        EXCEPT !.To = to, !.Contact = contacts, !.Expires = expires,
               !.Authorization = auth]

\* a plaintext password
Plain(password) == <<"plain", password>>

\* the users of the store: alice is stored with her HA1 digest, as in the
\* tests, mallory with a plaintext password
Users ==
    LET alice == [Username |-> "alice", Domain |-> "example.com",
                  PasswordHash |-> HashPassword("alice", "example.com", Plain("secret"))]
        mallory == [Username |-> "mallory", Domain |-> "example.com",
                    PasswordHash |-> Plain("pw")]
    IN  MapPut(MapPut(<<>>, registrarKey("alice", "example.com"), alice),
               registrarKey("mallory", "example.com"), mallory)

\* buildAuthorization of the tests: the header of a client that knows ha1
buildAuthorization(username, realm, ha1, nonce, nc, cnonce, method, uri) ==
    LET ha2 == md5Hex(<<<<ToUpper(method)>>, <<uri>>>>) IN
    <<[scheme |-> "Digest",
       params |-> [username |-> username, realm |-> realm, nonce |-> nonce,
                   uri |-> uri,
                   response |-> md5Hex(<<ha1, <<nonce>>, <<nc>>, <<cnonce>>,
                                         <<"auth">>, ha2>>),
                   algorithm |-> "MD5", qop |-> "auth", nc |-> nc,
                   cnonce |-> cnonce]]>>

\* the header of the client that knows the password of username
AuthorizationOf(username, password) ==
    buildAuthorization(username, "example.com",
                       HashPassword(username, "example.com", Plain(password)),
                       "nonce1", "00000001", "cnonce", "REGISTER", "sip:example.com")

ToAlice == <<"<sip:alice@example.com>">>
ToBob == <<"<sip:bob@example.com>">>
ToNobody == <<"<sip:example.com>">>

Desk == <<"<sip:alice@client.example.com>">>
DeskFor(seconds) == <<"<sip:alice@client.example.com>", <<"expires", Number(seconds)>>>>
DESK == <<"<SIP:Alice@Client.Example.com>", <<"Expires", Number(3)>>>>
Home == <<"<sip:alice@home.example.com>", <<"q", Text("0.5")>>>>
Star == <<"*">>
NoAddress == <<"", <<"expires", Number(5)>>>>

\* a client whose registrations run out, or are renewed or removed
ExpiryPeer ==
    {Register(1, ToAlice, <<Desk>>, Number(2), AuthorizationOf("alice", "secret")),
     Register(2, ToAlice, <<Home, DeskFor(1)>>, Number(3), AuthorizationOf("alice", "secret")),
     Register(3, ToAlice, <<DESK>>, Blank, AuthorizationOf("alice", "secret")),
     Register(4, ToAlice, <<DeskFor(0)>>, Blank, AuthorizationOf("alice", "secret")),
     Register(5, ToAlice, <<>>, Blank, AuthorizationOf("alice", "secret")),
     Options}

\* a client that registers and then sends the wildcard contact
WildcardPeer ==
    {Register(1, ToAlice, <<Desk, Home>>, Number(2), AuthorizationOf("alice", "secret")),
     Register(2, ToAlice, <<Star>>, Number(0), AuthorizationOf("alice", "secret")),
     Register(3, ToAlice, <<Star>>, Blank, AuthorizationOf("alice", "secret")),
     Register(4, ToAlice, <<Star>>, Number(5), AuthorizationOf("alice", "secret")),
     Register(5, ToAlice, <<Star>>, Number(0 - 1), AuthorizationOf("alice", "secret")),
     Register(6, ToAlice, <<Star>>, Text("now"), AuthorizationOf("alice", "secret"))}

\* a client that registers, and requests the registrar refuses
ErrorPeer ==
    {Register(1, ToAlice, <<Desk>>, Number(2), AuthorizationOf("alice", "secret")),
     Register(2, ToAlice, <<Home>>, Blank, <<>>),
     Register(3, ToAlice, <<Home>>, Blank, AuthorizationOf("alice", "guess")),
     Register(4, ToAlice, <<Star>>, Number(0), AuthorizationOf("mallory", "pw")),
     Register(5, ToBob, <<Home>>, Blank, AuthorizationOf("alice", "secret")),
     Register(6, ToNobody, <<Home>>, Blank, AuthorizationOf("alice", "secret")),
     Register(7, ToAlice, <<Home, NoAddress>>, Blank, AuthorizationOf("alice", "secret"))}

RegisterPeers == {ExpiryPeer, WildcardPeer, ErrorPeer}

\* the user and domain BindingsFor is called with
Readers == {<<"alice", "example.com">>, <<"Alice", "Example.COM">>}

\* the statuses upstream servers answer a request with
Statuses(req) ==
    IF EqualFold(req.Method, "INVITE") THEN {180, 200, 486, 503}
    ELSE IF EqualFold(req.Method, "OPTIONS") THEN {100, 200}
    ELSE {200}


\* buildResponseFrom(req, status, reason)
buildResponseFrom(req, status) ==
    [NewResponse(status) EXCEPT !.Via = req.Via, !.CallID = req.CallID,
                                !.CSeqNum = req.CSeqNum,
                                !.CSeqMethod = req.CSeqMethod]

\* the broadcast rules the proxy is started with: one rule with n targets
\* (and a blank one), or no rule at all
TargetPool == <<"sip:a@h1", " sip:b@h2 ", "sip:c@h3", "sip:d@h4">>

RulesFor(n) ==
    <<[Address |-> " SIP:1000@Example.com ",
       Targets |-> SubSeq(TargetPool, 1, n) \o <<" ">>]>>

Policies == {NewBroadcastPolicy(RulesFor(n)) : n \in 0..MaxTargets}
            \cup {NewBroadcastPolicy(<<>>)}

\* transport hands a request from downstream to the layer
ReceiveRequest ==
    \E req \in peer :
        /\ reqLeft > 0
        /\ Room
        /\ reqLeft' = reqLeft - 1
        /\ handleRequest(req)

\* transport hands a response from upstream to the layer
ReceiveResponse ==
    \E req \in upstreamSeen :
      \E status \in Statuses(req) :
        /\ respLeft > 0
        /\ Room
        /\ respLeft' = respLeft - 1
        /\ handleResponse(buildResponseFrom(req, status))

----------------------------------------------------------------------------
(* Goroutines and channels (proxy.go, transaction.go) *)

\* the channels NewProxy makes that a goroutine of the proxy sends to, each
\* with room for QueueCap values; clientIn and serverIn, which only the
\* callers of SendFromClient and SendFromServer send to, are not kept: the
\* transport goroutine takes a message from them whenever a caller has one
Channels ==
    {"clientOut", "serverOut", "transportToTxn", "txnToTransport", "txnToTU", "tuToTxn"}

\* the goroutines started by transportLayer.start, transactionLayer.start and
\* transactionUser.start
Layers == {"transport", "transactions", "core"}

\* a goroutine in the select of its loop, and one that has returned
AtSelect == [pc |-> "select", pending |-> <<>>]
Returned == [pc |-> "done", pending |-> <<>>]

\* NewProxy: empty channels, a context that is not cancelled, the three
\* goroutines started
NewProxy ==
    /\ ctxDone = FALSE
    /\ chans = [c \in Channels |-> <<>>]
    /\ closed = {}
    /\ tasks = [l \in Layers |-> AtSelect]
    /\ stopAt = "idle"

\* a channel send a handler makes
ChanSend(to, item) == [to |-> to, item |-> item]

Repeat(x, n) == [i \in 1..n |-> x]

\* the sequences of at most n values of S
RECURSIVE SeqsUpTo(_, _)
SeqsUpTo(S, n) ==
    IF n = 0 THEN {<<>>}
    ELSE SeqsUpTo(S, n - 1)
         \cup {Append(q, x) : q \in {r \in SeqsUpTo(S, n - 1) : Len(r) = n - 1}, x \in S}

\* the select of transportLayer.start: the send each receive is followed by
transportSends(c, item) ==
    IF c = "txnToTransport"
    THEN {<<ChanSend(IF item = "downstream" THEN "clientOut" ELSE "serverOut", "message")>>}
    ELSE {<<ChanSend("transportToTxn", item)>>}

\* the sends handleTransportEvent can make: handleRequest rejects the
\* request, re-sends the cached response, passes the request to the TU or
\* sends nothing; handleResponse passes the response to the TU or drops it
handleTransportEventSends(item) ==
    IF item = "request"
    THEN {<<>>, <<ChanSend("txnToTransport", "downstream")>>,
          <<ChanSend("txnToTU", "request")>>}
    ELSE {<<>>, <<ChanSend("txnToTU", "response")>>}

\* the sends handleTUAction can make
handleTUActionSends(item) ==
    IF item = "forward"
    THEN {<<ChanSend("txnToTransport", "upstream")>>}
    ELSE {<<>>, <<ChanSend("txnToTransport", "downstream")>>}

\* the sends one call of cleanupTransactions can make: responses re-sent
\* downstream, requests and CANCELs sent upstream, 408s for the TU
cleanupTransactionsSends ==
    SeqsUpTo({ChanSend("txnToTransport", "downstream"),
              ChanSend("txnToTransport", "upstream"),
              ChanSend("txnToTU", "timeout")}, MaxSweepSends)

\* the sends transactionUser.handleEvent can make: for a request the
\* forwarded copies or CANCELs and then at most one response; for the 408 of
\* a timer at most one response; for a response from upstream at most one
\* response and then the CANCELs or the BYE
handleEventSends(item) ==
    IF item = "request"
    THEN {Repeat(ChanSend("tuToTxn", "forward"), k) \o Repeat(ChanSend("tuToTxn", "respond"), j) :
             k \in 0..MaxTargets, j \in 0..1}
    ELSE IF item = "timeout"
    THEN {<<>>, <<ChanSend("tuToTxn", "respond")>>}
    ELSE {Repeat(ChanSend("tuToTxn", "respond"), j) \o Repeat(ChanSend("tuToTxn", "forward"), k) :
             j \in 0..1, k \in 0..(MaxTargets - 1)}

\* the channels the goroutine of a layer receives from
Inputs(layer) ==
    CASE layer = "transport" -> {"txnToTransport"}
      [] layer = "transactions" -> {"transportToTxn", "tuToTxn"}
      [] layer = "core" -> {"txnToTU"}

\* the channels whose closing makes the goroutine of a layer return
Ends(layer) ==
    CASE layer = "transport" -> {"txnToTransport"}
      [] layer = "transactions" -> {"transportToTxn", "tuToTxn"}
      [] layer = "core" -> {"txnToTU"}

\* the channels the deferred calls of the goroutine of a layer close
Closes(layer) ==
    CASE layer = "transport" -> {"clientOut", "serverOut"}
      [] layer = "transactions" -> {"txnToTransport", "txnToTU"}
      [] layer = "core" -> {"tuToTxn"}

\* what the handler of a received value sends
Sends(layer, c, item) ==
    CASE layer = "transport" -> transportSends(c, item)
      [] layer = "transactions" ->
            IF c = "transportToTxn" THEN handleTransportEventSends(item)
            ELSE handleTUActionSends(item)
      [] layer = "core" -> handleEventSends(item)

\* the goroutine with the sends out still to make
Running(out) == IF out = <<>> THEN AtSelect ELSE [pc |-> "sending", pending |-> out]

pipeIdle ==
    UNCHANGED <<serverTxns, clientTxns, toTU, fromTU, sessions, callIndex, broadcast,
                peer, nextBranch, emitted, last, upstreamSeen, hist, reqLeft, respLeft,
                ticksLeft, registrar, found, stackVars>>

\* a send that never gives way to the cancellation
ctxDoneCaseMissing(layer) == FALSE
\* the "case <-ctx.Done()" of the select around every channel send
ctxDoneCase(layer) == ctxDone

\* the select of a loop takes a value from a channel and runs its handler up
\* to the first send
Receive(layer) ==
    \E c \in Inputs(layer) :
        /\ tasks[layer].pc = "select"
        /\ chans[c] # <<>>
        /\ chans' = [chans EXCEPT ![c] = Tail(@)]
        /\ \E out \in Sends(layer, c, Head(chans[c])) :
               tasks' = [tasks EXCEPT ![layer] = Running(out)]
        /\ UNCHANGED <<ctxDone, closed, stopAt>>
        /\ pipeIdle

\* "case now := <-ticker.C" of transactionLayer.start
Ticker ==
    /\ tasks["transactions"].pc = "select"
    /\ \E out \in cleanupTransactionsSends :
           tasks' = [tasks EXCEPT !["transactions"] = Running(out)]
    /\ UNCHANGED <<ctxDone, chans, closed, stopAt>>
    /\ pipeIdle

\* the channel takes the value of the send the goroutine is at
Deliver(layer) ==
    /\ tasks[layer].pc = "sending"
    /\ Len(chans[Head(tasks[layer].pending).to]) < QueueCap
    /\ chans' = [chans EXCEPT ![Head(tasks[layer].pending).to] =
                     Append(@, Head(tasks[layer].pending).item)]
    /\ tasks' = [tasks EXCEPT ![layer] = Running(Tail(tasks[layer].pending))]
    /\ UNCHANGED <<ctxDone, closed, stopAt>>
    /\ pipeIdle

\* the send gives way to the cancellation: sendToTransport, sendToTU and
\* sendAction return to their handler, the transport goroutine returns
GiveWay(layer) ==
    /\ tasks[layer].pc = "sending"
    /\ ctxDoneCase(layer)
    /\ IF layer = "transport"
       THEN /\ tasks' = [tasks EXCEPT ![layer] = Returned]
            /\ closed' = closed \cup Closes(layer)
       ELSE /\ tasks' = [tasks EXCEPT ![layer] = Running(Tail(tasks[layer].pending))]
            /\ closed' = closed
    /\ UNCHANGED <<ctxDone, chans, stopAt>>
    /\ pipeIdle

\* the select of a loop takes "case <-ctx.Done()", or finds a channel closed:
\* the goroutine returns and its deferred calls close its output channels
Exit(layer) ==
    /\ tasks[layer].pc = "select"
    /\ ctxDone \/ \E c \in Ends(layer) : c \in closed /\ chans[c] = <<>>
    /\ tasks' = [tasks EXCEPT ![layer] = Returned]
    /\ closed' = closed \cup Closes(layer)
    /\ UNCHANGED <<ctxDone, chans, stopAt>>
    /\ pipeIdle

\* Proxy.SendFromClient with a request, Proxy.SendFromServer with a response:
\* the select of the transport goroutine takes the message from clientIn or
\* serverIn
SendFromClient ==
    /\ tasks["transport"].pc = "select"
    /\ \E out \in transportSends("clientIn", "request") :
           tasks' = [tasks EXCEPT !["transport"] = Running(out)]
    /\ UNCHANGED <<ctxDone, chans, closed, stopAt>>
    /\ pipeIdle

SendFromServer ==
    /\ tasks["transport"].pc = "select"
    /\ \E out \in transportSends("serverIn", "response") :
           tasks' = [tasks EXCEPT !["transport"] = Running(out)]
    /\ UNCHANGED <<ctxDone, chans, closed, stopAt>>
    /\ pipeIdle

\* Proxy.NextToClient and Proxy.NextToServer take a message
NextToClient ==
    /\ chans["clientOut"] # <<>>
    /\ chans' = [chans EXCEPT !["clientOut"] = Tail(@)]
    /\ UNCHANGED <<ctxDone, closed, tasks, stopAt>>
    /\ pipeIdle

NextToServer ==
    /\ chans["serverOut"] # <<>>
    /\ chans' = [chans EXCEPT !["serverOut"] = Tail(@)]
    /\ UNCHANGED <<ctxDone, closed, tasks, stopAt>>
    /\ pipeIdle

\* Proxy.Stop: p.cancel()
Stop ==
    /\ stopAt = "idle"
    /\ ctxDone' = TRUE
    /\ stopAt' = "core"
    /\ UNCHANGED <<chans, closed, tasks>>
    /\ pipeIdle

\* Proxy.Stop: p.core.wait(), p.transactions.wait(), p.transport.wait()
Wait ==
    /\ stopAt \in Layers
    /\ tasks[stopAt].pc = "done"
    /\ stopAt' = CASE stopAt = "core" -> "transactions"
                   [] stopAt = "transactions" -> "transport"
                   [] stopAt = "transport" -> "returned"
    /\ UNCHANGED <<ctxDone, chans, closed, tasks>>
    /\ pipeIdle

NextPipeline ==
    \/ \E layer \in Layers : Receive(layer)
    \/ Ticker
    \/ \E layer \in Layers : Deliver(layer)
    \/ \E layer \in Layers : GiveWay(layer)
    \/ \E layer \in Layers : Exit(layer)
    \/ SendFromClient
    \/ SendFromServer
    \/ NextToClient
    \/ NextToServer
    \/ Stop
    \/ Wait

----------------------------------------------------------------------------
(* The proxy *)

Init ==
    /\ serverTxns = <<>>
    /\ clientTxns = <<>>
    /\ toTU = <<>>
    /\ fromTU = <<>>
    /\ sessions = <<>>
    /\ callIndex = <<>>
    /\ broadcast = NewBroadcastPolicy(<<>>)
    /\ peer \in RelayPeers
    /\ nextBranch = 0
    /\ emitted = <<>>
    /\ last = Step("init", <<>>, 0)
    /\ upstreamSeen = {}
    /\ hist = <<>>
    /\ reqLeft = MaxRequests
    /\ respLeft = MaxResponses
    /\ ticksLeft = MaxTicks
    /\ registrar = <<>>
    /\ found = <<>>
    /\ stack = NoStack
    /\ routed = <<>>
    /\ NewProxy

\* the proxy started with a broadcast rule, called at the broadcast address
InitFork ==
    /\ serverTxns = <<>>
    /\ clientTxns = <<>>
    /\ toTU = <<>>
    /\ fromTU = <<>>
    /\ sessions = <<>>
    /\ callIndex = <<>>
    /\ broadcast \in {NewBroadcastPolicy(RulesFor(n)) : n \in 0..MaxTargets}
    /\ peer \in ForkPeers
    /\ nextBranch = 0
    /\ emitted = <<>>
    /\ last = Step("init", <<>>, 0)
    /\ upstreamSeen = {}
    /\ hist = <<>>
    /\ reqLeft = MaxForkRequests
    /\ respLeft = MaxForkResponses
    /\ ticksLeft = MaxForkTicks
    /\ registrar = <<>>
    /\ found = <<>>
    /\ stack = NoStack
    /\ routed = <<>>
    /\ NewProxy

\* one relayed call, and ticks without end
InitLive ==
    /\ serverTxns = <<>>
    /\ clientTxns = <<>>
    /\ toTU = <<>>
    /\ fromTU = <<>>
    /\ sessions = <<>>
    /\ callIndex = <<>>
    /\ broadcast = NewBroadcastPolicy(RulesFor(1))
    /\ peer \in RelayPeers \cup ForkPeers
    /\ nextBranch = 0
    /\ emitted = <<>>
    /\ last = Step("init", <<>>, 0)
    /\ upstreamSeen = {}
    /\ hist = <<>>
    /\ reqLeft = MaxLiveRequests
    /\ respLeft = MaxLiveResponses
    /\ ticksLeft = 0 - 1
    /\ registrar = <<>>
    /\ found = <<>>
    /\ stack = NoStack
    /\ routed = <<>>
    /\ NewProxy

\* the proxy started with or without a broadcast rule, behind other hops
InitHeaders ==
    /\ serverTxns = <<>>
    /\ clientTxns = <<>>
    /\ toTU = <<>>
    /\ fromTU = <<>>
    /\ sessions = <<>>
    /\ callIndex = <<>>
    /\ broadcast \in {NewBroadcastPolicy(<<>>), NewBroadcastPolicy(RulesFor(MaxTargets))}
    /\ peer \in HeaderPeers
    /\ nextBranch = 0
    /\ emitted = <<>>
    /\ last = Step("init", <<>>, 0)
    /\ upstreamSeen = {}
    /\ hist = <<>>
    /\ reqLeft = MaxHeaderRequests
    /\ respLeft = MaxHeaderResponses
    /\ ticksLeft = MaxHeaderTicks
    /\ registrar = <<>>
    /\ found = <<>>
    /\ stack = NoStack
    /\ routed = <<>>
    /\ NewProxy

\* NewRegistrar(store), with the clock at 0
NewRegistrar(store) == [store |-> store, now |-> 0, bindings |-> <<>>]

\* the proxy started WithRegistrar, over the store or over no store
InitRegistrar ==
    /\ serverTxns = <<>>
    /\ clientTxns = <<>>
    /\ toTU = <<>>
    /\ fromTU = <<>>
    /\ sessions = <<>>
    /\ callIndex = <<>>
    /\ broadcast = NewBroadcastPolicy(<<>>)
    /\ peer \in RegisterPeers
    /\ nextBranch = 0
    /\ emitted = <<>>
    /\ last = Step("init", <<>>, 0)
    /\ upstreamSeen = {}
    /\ hist = <<>>
    /\ reqLeft = MaxRegRequests
    /\ respLeft = MaxRegResponses
    /\ ticksLeft = MaxRegTicks
    /\ registrar \in {<<NewRegistrar(store)>> : store \in {<<>>, <<Users>>}}
    /\ found = <<>>
    /\ stack = NoStack
    /\ routed = <<>>
    /\ NewProxy

\* a second passes on the clock of the registrar
AdvanceClock ==
    /\ registrar # <<>>
    /\ registrar[1].now < MaxClock
    /\ registrar' = <<[registrar[1] EXCEPT !.now = @ + 1]>>
    /\ last' = Step("clock", <<>>, 0)
    /\ emitted' = <<>>
    /\ UNCHANGED <<serverTxns, clientTxns, toTU, fromTU, sessions, callIndex, broadcast,
                   peer, nextBranch, upstreamSeen, hist, reqLeft, respLeft, ticksLeft,
                   found, stackVars, pipeVars>>

\* the routing code asks the registrar for the bindings of a user
CallBindingsFor ==
    /\ registrar # <<>>
    /\ \E who \in Readers :
          LET got == BindingsFor(registrar[1], who[1], who[2]) IN
          /\ found' = got.out
          /\ registrar' = <<got.registrar>>
          /\ last' = Step("BindingsFor", registrarKey(who[1], who[2]), 0)
    /\ emitted' = <<>>
    /\ UNCHANGED <<serverTxns, clientTxns, toTU, fromTU, sessions, callIndex, broadcast,
                   peer, nextBranch, upstreamSeen, hist, reqLeft, respLeft, ticksLeft,
                   stackVars, pipeVars>>

Next ==
    \/ ReceiveRequest
    \/ ReceiveResponse
    \/ handleTUAction
    \/ handleEvent
    \/ Tick

Spec == Init /\ [][Next]_vars

SpecFork == InitFork /\ [][Next]_vars

\* the same INVITE over another path (another top Via), and another call
MergedInvite ==
    DownRequest("INVITE", "sip:1000@example.com", <<<<"z9hG4bKclient", 2>>>>,
                "a84b4c76e66710")
OtherInvite ==
    DownRequest("INVITE", "SIP:1000@example.com", <<<<"z9hG4bKclient", 3>>>>,
                "b84b4c76e66710")

\* the INVITE with a session description as its body
Offer(req) == [req EXCEPT !.Body = "v=0"]

\* what downstream peers send to the broadcast address
CastPeers ==
    {{Offer(Invite("sip:1000@example.com ")), Cancel("A84B4C76E66710")},
     {Offer(Invite("sip:1000@example.com ")), MergedInvite},
     {Offer(Invite("sip:1000@example.com ")), OtherInvite}}

\* the Contact of the target that answers req: the URI alone at the first
\* target, the URI in angle brackets at the others, with a parameter
ContactAt(req) ==
    IF req.RequestURI = "sip:a@h1"
    THEN <<req.RequestURI, <<"q", Text("0.5")>>>>
    ELSE <<"<" \o req.RequestURI \o ">", <<"q", Text("0.5")>>>>

\* the answer of a target: buildResponseFrom with the Contact values contact
answerFrom(req, status, contact) ==
    [buildResponseFrom(req, status) EXCEPT !.Contact = contact]

\* transport hands the answer of a target to the layer
ReceiveAnswer ==
    \E req \in upstreamSeen :
      \E status \in Statuses(req) :
       \E contact \in IF status < 200 THEN {<<>>} ELSE {<<>>, <<ContactAt(req)>>} :
        /\ respLeft > 0
        /\ Room
        /\ respLeft' = respLeft - 1
        /\ handleResponse(answerFrom(req, status, contact))

\* the proxy started with a broadcast rule of two targets
InitBroadcast ==
    /\ serverTxns = <<>>
    /\ clientTxns = <<>>
    /\ toTU = <<>>
    /\ fromTU = <<>>
    /\ sessions = <<>>
    /\ callIndex = <<>>
    /\ broadcast = NewBroadcastPolicy(RulesFor(2))
    /\ peer \in CastPeers
    /\ nextBranch = 0
    /\ emitted = <<>>
    /\ last = Step("init", <<>>, 0)
    /\ upstreamSeen = {}
    /\ hist = <<>>
    /\ reqLeft = MaxCastRequests
    /\ respLeft = MaxCastResponses
    /\ ticksLeft = 0
    /\ registrar = <<>>
    /\ found = <<>>
    /\ stack = NoStack
    /\ routed = <<>>
    /\ NewProxy

NextBroadcast ==
    \/ ReceiveRequest
    \/ ReceiveAnswer
    \/ handleTUAction
    \/ handleEvent

SpecBroadcast == InitBroadcast /\ [][NextBroadcast]_vars

SpecHeaders == InitHeaders /\ [][Next]_vars

\* a user of the directory with a default contact
DirectoryUser(username, domain, contactURI) ==
    [Username |-> username, Domain |-> domain, PasswordHash |-> Plain("pw"),
     ContactURI |-> contactURI]

\* the user databases the stack is started over
UserDatabases ==
    {<<>>,
     <<DirectoryUser("bob", "example.com", "sip:bob@198.51.100.10:5090")>>,
     <<DirectoryUser("Bob", "Example.COM", ""),
       DirectoryUser("carol", "example.org", "sip:carol@home.invalid")>>}

\* the upstream address of the configuration: none, or 198.51.100.1:5060
UpstreamAddrs == {<<>>, <<[host |-> "198.51.100.1", port |-> "5060"]>>}

\* a binding of the registrar, as applyRegistration stores it
Bound(address, expires) ==
    [contact |-> <<address, <<"expires", Number(expires)>>>>, expires |-> expires]

\* the binding tables the registrar holds when the requests are routed
BindingTables ==
    {<<>>,
     MapPut(<<>>, registrarKey("bob", "example.com"),
            <<Bound("<sip:bob@192.0.2.55:5070>", 2)>>),
     MapPut(<<>>, registrarKey("bob", "example.com"),
            <<Bound("<sip:bob@desk.invalid>", 3), Bound("<sip:bob@192.0.2.66>", 1),
              Bound("<sip:bob@192.0.2.55:5070>", 3)>>)}

\* the messages the proxy hands to the upstream sender
RoutedMessages ==
    {NewRequest("INVITE", uri) :
        uri \in {"sip:bob@example.com", "sip:bob@Example.COM", "sip:carol@example.org",
                 "sip:example.com", "sip:bob@203.0.113.5:5090", "sip:bob@"}}
    \cup {NewResponse(200)}

\* a started stack, with or without a registrar
InitRouting ==
    /\ serverTxns = <<>>
    /\ clientTxns = <<>>
    /\ toTU = <<>>
    /\ fromTU = <<>>
    /\ sessions = <<>>
    /\ callIndex = <<>>
    /\ broadcast = NewBroadcastPolicy(<<>>)
    /\ peer = {}
    /\ nextBranch = 0
    /\ emitted = <<>>
    /\ last = Step("init", <<>>, 0)
    /\ upstreamSeen = {}
    /\ hist = <<>>
    /\ reqLeft = 0
    /\ respLeft = 0
    /\ ticksLeft = 0
    /\ registrar \in {<<>>} \cup {<<[NewRegistrar(<<>>) EXCEPT !.bindings = table]>> :
                                    table \in BindingTables}
    /\ found = <<>>
    /\ stack \in {NewStack(users, addr) : users \in UserDatabases, addr \in UpstreamAddrs}
    /\ routed = <<>>
    /\ NewProxy

\* SIPStack.runUpstreamSender takes a message and selects its target
SelectTarget ==
    \E msg \in RoutedMessages :
        LET got == selectUpstreamTarget(stack, registrar, msg) IN
        /\ routed' = <<[message |-> msg, addr |-> got.addr, err |-> got.err]>>
        /\ registrar' = got.registrar
        /\ last' = Step("selectUpstreamTarget", <<msg.RequestURI>>, 0)
        /\ emitted' = <<>>
        /\ UNCHANGED <<serverTxns, clientTxns, toTU, fromTU, sessions, callIndex,
                       broadcast, peer, nextBranch, upstreamSeen, hist, reqLeft,
                       respLeft, ticksLeft, found, stack, pipeVars>>

NextRouting ==
    \/ SelectTarget
    \/ AdvanceClock

SpecRouting == InitRouting /\ [][NextRouting]_vars

\* the proxy as NewProxy returns it
InitPipeline ==
    /\ serverTxns = <<>>
    /\ clientTxns = <<>>
    /\ toTU = <<>>
    /\ fromTU = <<>>
    /\ sessions = <<>>
    /\ callIndex = <<>>
    /\ broadcast = NewBroadcastPolicy(<<>>)
    /\ peer = {}
    /\ nextBranch = 0
    /\ emitted = <<>>
    /\ last = Step("init", <<>>, 0)
    /\ upstreamSeen = {}
    /\ hist = <<>>
    /\ reqLeft = 0
    /\ respLeft = 0
    /\ ticksLeft = 0
    /\ registrar = <<>>
    /\ found = <<>>
    /\ stack = NoStack
    /\ routed = <<>>
    /\ NewProxy

SpecPipeline == InitPipeline /\ [][NextPipeline]_vars

\* the scheduler runs every goroutine that can take a step; a select with
\* several cases ready picks one of them at random, so a case that is ready
\* again and again is taken in the end
SpecShutdown ==
    /\ InitPipeline
    /\ [][NextPipeline]_vars
    /\ \A layer \in Layers :
           /\ WF_vars(Deliver(layer) \/ GiveWay(layer))
           /\ SF_vars(Exit(layer))
    /\ WF_vars(Wait)

NextRegistrar ==
    \/ Next
    \/ AdvanceClock
    \/ CallBindingsFor

SpecRegistrar == InitRegistrar /\ [][NextRegistrar]_vars

\* two instances of alice at one host, told apart by a URI parameter inside
\* the angle brackets; the values as the code cuts them at every ";"
DeskUdp == <<"<sip:alice@client.example.com", <<"transport", Text("udp>")>>>>
DeskTcp == <<"<sip:alice@client.example.com", <<"transport", Text("tcp>")>>>>
DeskTcpFor(seconds) == DeskTcp \o <<<<"expires", Number(seconds)>>>>

\* a client that registers contacts again, in another spelling, with other
\* parameters, and removes one
ContactPeers ==
    {{Register(1, ToAlice, <<Desk, Home>>, Number(3), AuthorizationOf("alice", "secret")),
      Register(2, ToAlice, <<DESK>>, Blank, AuthorizationOf("alice", "secret")),
      Register(3, ToAlice, <<DeskFor(0)>>, Number(2), AuthorizationOf("alice", "secret")),
      Options},
     {Register(1, ToAlice, <<DeskUdp, Home>>, Number(3), AuthorizationOf("alice", "secret")),
      Register(2, ToAlice, <<DeskTcpFor(0)>>, Blank, AuthorizationOf("alice", "secret")),
      Register(3, ToAlice, <<DeskTcp>>, Number(2), AuthorizationOf("alice", "secret")),
      Options}}

\* the proxy started WithRegistrar over the store, for those clients
InitContacts ==
    /\ serverTxns = <<>>
    /\ clientTxns = <<>>
    /\ toTU = <<>>
    /\ fromTU = <<>>
    /\ sessions = <<>>
    /\ callIndex = <<>>
    /\ broadcast = NewBroadcastPolicy(<<>>)
    /\ peer \in ContactPeers
    /\ nextBranch = 0
    /\ emitted = <<>>
    /\ last = Step("init", <<>>, 0)
    /\ upstreamSeen = {}
    /\ hist = <<>>
    /\ reqLeft = MaxRegRequests
    /\ respLeft = MaxRegResponses
    /\ ticksLeft = MaxRegTicks
    /\ registrar = <<NewRegistrar(<<Users>>)>>
    /\ found = <<>>
    /\ stack = NoStack
    /\ routed = <<>>
    /\ NewProxy

SpecContacts == InitContacts /\ [][NextRegistrar]_vars

\* the steps when the ticker is served every period
NextLive ==
    \/ ReceiveRequest
    \/ ReceiveResponse
    \/ handleTUAction
    \/ handleEvent
    \/ TickOnTime

\* the loops of the layer and of the TU keep running, and the ticker ticks
SpecLive ==
    /\ InitLive /\ [][NextLive]_vars
    /\ WF_vars(TickOnTime) /\ WF_vars(handleEvent) /\ WF_vars(handleTUAction)

----------------------------------------------------------------------------
(* What a step added to the queues *)

\* the events a step of the layer appended for the TU
NewEvents ==
    IF Len(toTU') >= Len(toTU) THEN SubSeq(toTU', Len(toTU) + 1, Len(toTU')) ELSE <<>>

\* the actions a step of the TU appended for the layer
NewActions ==
    IF Len(fromTU') >= Len(fromTU)
    THEN SubSeq(fromTU', Len(fromTU) + 1, Len(fromTU')) ELSE <<>>

\* a tick acts only on client transactions that are registered: the events it
\* gives the TU carry the id of one, and what it puts upstream is the request
\* of one, or the CANCEL made from it
TickOnlyForRegistered ==
    last'.act = "tick" =>
        /\ \A i \in 1..Len(NewEvents) : NewEvents[i].ClientTxID \in DOMAIN clientTxns
        /\ \A j \in 1..Len(emitted') :
              emitted'[j].Direction = "upstream" =>
                 \E k \in DOMAIN clientTxns :
                    emitted'[j].Message \in {clientTxns[k].request,
                                             cancelFromRequest(clientTxns[k].request)}

\* a client transaction is never registered under an id whose request has
\* been put upstream before
NeverRegisteredAgain ==
    \A k \in DOMAIN clientTxns' \ DOMAIN clientTxns :
        \A m \in upstreamSeen : transactionKey(topViaBranch(m), m.Method) # k

----------------------------------------------------------------------------
(* Server transactions and retransmitted requests *)

\* C1: the first request with a given (method, top-Via branch), ACK apart,
\* creates exactly one server transaction and gives the TU exactly one request
\* event; while the entry exists, a further request with the same key creates
\* nothing, gives the TU nothing, and puts downstream the cached last
\* response if there is one, and nothing otherwise.
C1_Step ==
    LET key == last'.key IN
    (last'.act = "handleRequest" /\ key[1] # "ACK" /\ key[2] # NoBranch) =>
        IF key \in DOMAIN serverTxns
        THEN /\ DOMAIN serverTxns' = DOMAIN serverTxns
             /\ toTU' = toTU
             /\ emitted' = IF serverTxns[key].lastResponse = <<>> THEN <<>>
                           ELSE <<Downstream(serverTxns[key].lastResponse[1])>>
        ELSE /\ DOMAIN serverTxns' = DOMAIN serverTxns \cup {key}
             /\ Len(NewEvents) = 1
             /\ SubSeq(toTU', 1, Len(toTU)) = toTU
             /\ NewEvents[1].Kind = "tuEventRequest"
             /\ NewEvents[1].ServerTxID = key
             /\ emitted' = <<>>

C1_RetransmissionsAbsorbed == [][C1_Step]_vars

\* a retransmitted OPTIONS was answered from the cache
C1_Witness ==
    /\ last.act = "handleRequest"
    /\ last.key[1] = "OPTIONS"
    /\ last.key \in DOMAIN serverTxns
    /\ serverTxns[last.key].lastResponse # <<>>
    /\ emitted = <<Downstream(serverTxns[last.key].lastResponse[1])>>

\* C10 as stated: once the 200 to a forwarded INVITE has been relayed
\* downstream, the same INVITE arriving again (same top-Via branch) makes the
\* layer put a 200 downstream and give the TU nothing to forward.
C10_AsStatedStep ==
    LET key == last'.key IN
    (/\ last'.act = "handleRequest"
     /\ key[1] = "INVITE"
     /\ key \in DOMAIN hist
     /\ hist[key].oks >= 1) =>
        /\ Len(emitted') = 1
        /\ emitted'[1].Direction = "downstream"
        /\ emitted'[1].Message.StatusCode = 200
        /\ toTU' = toTU

C10_AsStated == [][C10_AsStatedStep]_vars

\* C10: once the 200 to a forwarded INVITE has been relayed downstream, and
\* while the server transaction is registered with that 200 as the last
\* response sent on it, the same INVITE arriving again (same top-Via branch)
\* makes the layer put the cached 200 downstream and nothing upstream: no
\* event goes to the TU, no action is pending for it and no client
\* transaction changes.
C10_Step ==
    LET key == last'.key IN
    (/\ last'.act = "handleRequest"
     /\ key[1] = "INVITE"
     /\ key \in DOMAIN hist
     /\ hist[key].oks >= 1
     /\ key \in DOMAIN serverTxns
     /\ serverTxns[key].lastResponse # <<>>
     /\ serverTxns[key].lastResponse[1].StatusCode = 200) =>
        /\ emitted' = <<Downstream(serverTxns[key].lastResponse[1])>>
        /\ toTU' = toTU
        /\ fromTU' = fromTU
        /\ clientTxns' = clientTxns
        /\ upstreamSeen' = upstreamSeen

C10_Cached200Resent == [][C10_Step]_vars

\* the INVITE came again after its 200 had been relayed
C10_Witness ==
    /\ last.act = "handleRequest"
    /\ last.key[1] = "INVITE"
    /\ last.key \in DOMAIN hist
    /\ hist[last.key].oks = 1
    /\ Len(emitted) = 1
    /\ emitted[1].Message.StatusCode = 200

----------------------------------------------------------------------------
(* Broadcast sessions *)

\* C2: a forked INVITE none of whose forks returns a 2xx gets at most one
\* final response downstream on its server transaction, whatever arrives
\* later from upstream.
C2_OneFinalDownstream ==
    \A k \in DOMAIN hist :
        (hist[k].forked /\ ~hist[k].up2xx) => hist[k].finals <= 1

\* C3: a forked INVITE gets at most one 2xx downstream on its server
\* transaction, whatever arrives later from upstream.
C3_One2xxDownstream ==
    \A k \in DOMAIN hist : hist[k].forked => hist[k].oks <= 1

\* C4: when the TU takes the first 2xx of a broadcast session, from fork k,
\* it sends that 2xx downstream and one CANCEL for each other fork that is
\* neither final nor cancelled already, and no CANCEL for fork k or for a
\* final fork.
C4_Step ==
    (toTU # <<>> /\ last'.act = "handleEvent") =>
        LET event == Head(toTU)
            id == event.ClientTxID
        IN
        (/\ event.Kind = "tuEventResponse"
         /\ event.ServerTxID \in DOMAIN sessions
         /\ id \in DOMAIN sessions[event.ServerTxID].forks
         /\ event.Message.CSeqMethod = "INVITE"
         /\ event.Message.StatusCode \in 200..299
         /\ sessions[event.ServerTxID].winner = <<>>) =>
            LET forks == sessions[event.ServerTxID].forks
                others == {o \in DOMAIN forks \ {id} :
                              ~forks[o].final /\ ~forks[o].cancelled}
                cancels == {i \in 1..Len(NewActions) :
                               /\ NewActions[i].Kind = "tuActionForwardRequest"
                               /\ NewActions[i].Message.Method = "CANCEL"}
            IN
            /\ Len(NewActions) = 1 + Cardinality(others)
            /\ NewActions[1].Kind = "tuActionSendResponse"
            /\ NewActions[1].ServerTxID = event.ServerTxID
            /\ NewActions[1].Message.StatusCode = event.Message.StatusCode
            /\ cancels = 2..Len(NewActions)
            /\ {NewActions[i].ClientTxID : i \in cancels}
                   = {transactionKey(forks[o].branch, "CANCEL") : o \in others}
            /\ \A i \in cancels :
                  /\ NewActions[i].ServerTxID = event.ServerTxID
                  /\ \E o \in others :
                        /\ topViaBranch(NewActions[i].Message) = forks[o].branch
                        /\ NewActions[i].Message.RequestURI = forks[o].requestURI

C4_CancelOtherForks == [][C4_Step]_vars

\* the first 2xx has just been taken: the 200 and one CANCEL wait for the layer
C4_Witness ==
    /\ last.act = "handleEvent"
    /\ last.status = 200
    /\ Len(fromTU) = 2
    /\ fromTU[1].Kind = "tuActionSendResponse"
    /\ fromTU[2].Kind = "tuActionForwardRequest"
    /\ fromTU[2].Message.Method = "CANCEL"
    /\ \E k \in DOMAIN sessions : sessions[k].winner # <<>>

\* C5: an INVITE whose Request-URI, normalised, is the address of a rule with
\* N >= 1 targets makes the TU send exactly N ForwardRequest actions, the
\* i-th with the i-th target as Request-URI, each with a branch and a
\* client-tx id that differ from each other and have not been used, and none
\* to the Request-URI of the INVITE.
C5_Step ==
    (toTU # <<>> /\ last'.act = "handleEvent" /\ DOMAIN broadcast # {}) =>
        LET event == Head(toTU)
            req == event.Message
            targets == broadcast[CHOOSE a \in DOMAIN broadcast : TRUE]
        IN
        (/\ event.Kind = "tuEventRequest"
         /\ req.Method = "INVITE"
         /\ req.RequestURI = "sip:1000@example.com "
         /\ targets # <<>>) =>
            /\ Len(NewActions) = Len(targets)
            /\ \A i \in 1..Len(NewActions) :
                  LET a == NewActions[i] IN
                  /\ a.Kind = "tuActionForwardRequest"
                  /\ a.ServerTxID = event.ServerTxID
                  /\ a.Message.Method = "INVITE"
                  /\ a.Message.RequestURI = targets[i]
                  /\ a.Message.RequestURI # req.RequestURI
                  /\ topViaBranch(a.Message) # NoBranch
                  /\ a.ClientTxID = <<"INVITE", topViaBranch(a.Message)>>
                  /\ a.ClientTxID \notin DOMAIN clientTxns
                  /\ \A m \in upstreamSeen : topViaBranch(a.Message) # topViaBranch(m)
                  /\ \A j \in 1..Len(fromTU) : fromTU[j].ClientTxID # a.ClientTxID
                  /\ \A j \in 1..Len(NewActions) :
                        j # i => NewActions[j].ClientTxID # a.ClientTxID

C5_OneForwardPerTarget == [][C5_Step]_vars

\* an INVITE has just been forked to the two targets of the rule
C5_Witness ==
    /\ last.act = "handleEvent"
    /\ Len(fromTU) = 2
    /\ fromTU[1].Kind = "tuActionForwardRequest"
    /\ fromTU[1].Message.RequestURI = "sip:a@h1"
    /\ fromTU[2].Kind = "tuActionForwardRequest"
    /\ fromTU[2].Message.RequestURI = "sip:b@h2"
    /\ \E k \in DOMAIN sessions : Cardinality(DOMAIN sessions[k].forks) = 2

----------------------------------------------------------------------------
(* Client transactions *)

\* C6: a client transaction is created with timer B or F at 64*T1; if it has
\* got no response, the first tick at or after that time gives the TU exactly
\* one 408 for it, with the id of the server transaction it came from, removes
\* it, and does not put its request upstream; a tick gives the TU a 408 for
\* such a transaction only then, retransmits only registered transactions, and
\* an id once used is never registered again.
C6_Step ==
    /\ \A k \in DOMAIN clientTxns' \ DOMAIN clientTxns :
          clientTxns'[k].deadline = <<64 * defaultTimerT1>>
    /\ last'.act = "tick" =>
          \A k \in DOMAIN clientTxns :
             LET e == clientTxns[k]
                 mine == {i \in 1..Len(NewEvents) : NewEvents[i].ClientTxID = k}
                 due == ~IsZero(e.deadline) /\ e.deadline[1] <= last'.status
                 dueC == ~IsZero(e.timerCDeadline) /\ e.timerCDeadline[1] <= last'.status
             IN
             e.lastResponse = <<>> =>
                /\ due =>
                      /\ k \notin DOMAIN clientTxns'
                      /\ Cardinality(mine) = 1
                      /\ \A i \in mine :
                            /\ NewEvents[i].Kind = "tuEventResponse"
                            /\ NewEvents[i].Message.StatusCode = 408
                            /\ NewEvents[i].ServerTxID = e.serverTxID
                      /\ \A j \in 1..Len(emitted') : emitted'[j] # Upstream(e.request)
                /\ (~due /\ ~dueC) => mine = {} /\ k \in DOMAIN clientTxns'
    /\ TickOnlyForRegistered
    /\ NeverRegisteredAgain

C6_TimeoutGives408 == [][C6_Step]_vars

\* timer F has run out on a forwarded OPTIONS: its 408 waits for the TU
C6_Witness ==
    /\ last.act = "tick"
    /\ \E i \in 1..Len(toTU) :
          /\ toTU[i].Message.StatusCode = 408
          /\ toTU[i].ClientTxID[1] = "OPTIONS"
          /\ toTU[i].ClientTxID \notin DOMAIN clientTxns
          /\ toTU[i].ServerTxID[1] = "OPTIONS"

\* C7: a 2xx that matches an INVITE client transaction removes it from the
\* registry in the step that receives it; no tick acts on a transaction that
\* is not registered, and its id is never registered again, so that no later
\* tick retransmits the INVITE or fires a timer for it.
C7_Step ==
    /\ (/\ last'.act = "handleResponse"
        /\ last'.key \in DOMAIN clientTxns
        /\ clientTxns[last'.key].isInvite
        /\ last'.status \in 200..299) =>
            /\ last'.key \notin DOMAIN clientTxns'
            /\ Len(NewEvents) = 1
            /\ NewEvents[1].ClientTxID = last'.key
    /\ TickOnlyForRegistered
    /\ NeverRegisteredAgain

C7_SuccessRemovesInviteClient == [][C7_Step]_vars

\* the 200 to a forwarded INVITE has just been received
C7_Witness ==
    /\ last.act = "handleResponse"
    /\ last.key[1] = "INVITE"
    /\ last.status = 200
    /\ last.key \notin DOMAIN clientTxns
    /\ \E i \in 1..Len(toTU) : toTU[i].ClientTxID = last.key

\* C8: a ForwardRequest action registers exactly one client transaction, under
\* its client-tx id, and nothing else registers one; an entry leaves the
\* registry only by a 2xx to an INVITE (in the step that receives it), by
\* timer B or F, by timer C, or by timer D or K, which only a final response
\* starts (D at a 3xx-6xx to an INVITE, K at a final to another request); D
\* and K give the TU nothing.
C8_Step ==
    /\ IF last'.act = "forwardRequest"
       THEN /\ fromTU # <<>>
            /\ Head(fromTU).ClientTxID # <<>> => last'.key = Head(fromTU).ClientTxID
            /\ last'.key \notin DOMAIN clientTxns
            /\ DOMAIN clientTxns' = DOMAIN clientTxns \cup {last'.key}
       ELSE DOMAIN clientTxns' \subseteq DOMAIN clientTxns
    /\ \A k \in DOMAIN clientTxns \ DOMAIN clientTxns' :
          LET e == clientTxns[k]
              tick == last'.act = "tick"
              dueBF == ~IsZero(e.deadline) /\ e.deadline[1] <= last'.status
              dueC == ~IsZero(e.timerCDeadline) /\ e.timerCDeadline[1] <= last'.status
              dueDK == ~IsZero(e.terminateAt) /\ e.terminateAt[1] <= last'.status
              by2xx == /\ last'.act = "handleResponse" /\ last'.key = k
                       /\ e.isInvite /\ last'.status \in 200..299
              byBF == tick /\ dueBF
              byC == tick /\ ~dueBF /\ dueC
              byDK == tick /\ ~dueBF /\ ~dueC /\ dueDK
          IN /\ by2xx \/ byBF \/ byC \/ byDK
             /\ byDK => \A i \in 1..Len(NewEvents) : NewEvents[i].ClientTxID # k
    /\ \A k \in DOMAIN clientTxns \cap DOMAIN clientTxns' :
          (IsZero(clientTxns[k].terminateAt) /\ ~IsZero(clientTxns'[k].terminateAt)) =>
              /\ last'.act = "handleResponse"
              /\ last'.key = k
              /\ IF clientTxns[k].isInvite
                 THEN last'.status >= 300 /\ clientTxns'[k].terminateAt = <<timerD>>
                 ELSE last'.status >= 200 /\ clientTxns'[k].terminateAt = <<timerK>>

C8_ClientTransactionLifecycle == [][C8_Step]_vars

\* timer K has removed the client transaction of an OPTIONS whose 200 was
\* relayed, and the TU has nothing to take
C8_Witness ==
    /\ last.act = "tick"
    /\ DOMAIN clientTxns = {}
    /\ toTU = <<>>
    /\ \E k \in DOMAIN hist : k[1] = "OPTIONS" /\ hist[k].oks = 1

----------------------------------------------------------------------------
(* C11: a 2xx sent on an INVITE server transaction *)

\* the step in which the layer takes a SendResponse of a 2xx for the
\* registered INVITE server transaction key
Sends2xxOnInvite(key) ==
    /\ fromTU # <<>>
    /\ Head(fromTU).Kind = "tuActionSendResponse"
    /\ Head(fromTU).ServerTxID = key
    /\ Head(fromTU).Message.StatusCode \in 200..299
    /\ key \in DOMAIN serverTxns
    /\ serverTxns[key].isInvite
    /\ last'.act = "sendResponse"

C11_AsStatedStep ==
    \A key \in DOMAIN serverTxns :
        Sends2xxOnInvite(key) =>
            /\ emitted' = <<Downstream(Head(fromTU).Message)>>
            /\ key \notin DOMAIN serverTxns'

\* C11 as stated: when the TU sends a 2xx on an INVITE server transaction the
\* response goes downstream and the entry leaves the registry in that step.
C11_AsStated == [][C11_AsStatedStep]_vars

\* an INVITE server entry whose last response sent is a 2xx
Holds2xx(e) ==
    /\ e.isInvite
    /\ e.state = "Terminated"
    /\ e.lastResponse # <<>>
    /\ e.lastResponse[1].StatusCode \in 200..299

C11_Step ==
    /\ \A key \in DOMAIN serverTxns :
          Sends2xxOnInvite(key) =>
              /\ emitted' = <<Downstream(Head(fromTU).Message)>>
              /\ key \in DOMAIN serverTxns'
              /\ serverTxns'[key].state = "Terminated"
              /\ serverTxns'[key].lastResponse = <<Head(fromTU).Message>>
              /\ serverTxns'[key].deadline = NowAdd(timerH)
              /\ serverTxns'[key].retransmitAt = ZeroTime
    /\ last'.act = "tick" =>
          \A key \in DOMAIN serverTxns :
              Holds2xx(serverTxns[key]) =>
                  /\ ~IsZero(serverTxns[key].deadline)
                  /\ key \in DOMAIN serverTxns'
                        <=> last'.status <= serverTxns[key].deadline[1]
                  /\ \A j \in 1..Len(emitted') :
                        emitted'[j] # Downstream(serverTxns[key].lastResponse[1])

\* C11, amended: when the TU sends a 2xx on an INVITE server transaction the
\* response goes downstream and the machine goes to Terminated, but the entry
\* stays in the registry with timer H as its deadline and no retransmission;
\* a tick re-sends nothing for it and removes it once timer H has passed.
C11_2xxKeptForTimerH == [][C11_Step]_vars

\* a 2xx was just sent on an INVITE server transaction, which is still there
C11_Witness ==
    /\ last.act = "sendResponse"
    /\ last.status \in 200..299
    /\ last.key \in DOMAIN serverTxns
    /\ Holds2xx(serverTxns[last.key])
    /\ serverTxns[last.key].deadline = NowAdd(timerH)
    /\ emitted = <<Downstream(serverTxns[last.key].lastResponse[1])>>
----------------------------------------------------------------------------
(* C12: ACK for an INVITE server transaction in Completed *)

\* the step in which the layer takes an ACK from downstream
TakesAck == last'.act = "handleRequest" /\ last'.key[1] = "ACK"

\* the INVITE server transaction an ACK with that key is matched against
AckedKey(ackKey) == transactionKey(keyBranch(ackKey), "INVITE")

\* the ACK of this step finds its INVITE server transaction in Completed
AckMatchesCompleted ==
    /\ TakesAck
    /\ AckedKey(last'.key) \in DOMAIN serverTxns
    /\ serverTxns[AckedKey(last'.key)].isInvite
    /\ serverTxns[AckedKey(last'.key)].state = "Completed"

C12_Step ==
    /\ TakesAck =>
          /\ toTU' = toTU
          /\ fromTU' = fromTU
          /\ emitted' = <<>>
          /\ clientTxns' = clientTxns
          /\ upstreamSeen' = upstreamSeen
    /\ AckMatchesCompleted =>
          /\ AckedKey(last'.key) \in DOMAIN serverTxns'
          /\ serverTxns'[AckedKey(last'.key)].state = "Confirmed"
          /\ serverTxns'[AckedKey(last'.key)].retransmitAt = ZeroTime
          /\ serverTxns'[AckedKey(last'.key)].deadline = NowAdd(timerI)
    /\ (TakesAck /\ ~AckMatchesCompleted) => serverTxns' = serverTxns
    /\ last'.act = "tick" =>
          \A key \in DOMAIN serverTxns :
              (key \in DOMAIN hist /\ hist[key].acked) =>
                  /\ \A j \in 1..Len(emitted') :
                        emitted'[j].Direction = "downstream"
                            => emitted'[j].Message.Via # serverTxns[key].request.Via
                  /\ last'.status > timerI => key \notin DOMAIN serverTxns'

\* C12: an ACK matching an INVITE server transaction in Completed makes it
\* Confirmed with timer I as its deadline, is neither given to the TU nor sent
\* upstream, and from then on no tick re-sends anything downstream for that
\* transaction and a tick more than timer I later finds it gone; any other
\* ACK leaves the registry as it was.
C12_AckConfirms == [][C12_Step]_vars
----------------------------------------------------------------------------
(* C13: timer G and timer H of an INVITE server transaction *)

\* an INVITE server entry whose last response sent is a 3xx-6xx that no ACK
\* has answered
AwaitsAck(e) == e.isInvite /\ e.state = "Completed"

\* how often the tick of this step re-sent the cached response of e
Resent(e) ==
    Cardinality({j \in 1..Len(emitted') : emitted'[j] = Downstream(e.lastResponse[1])})

C13_Step ==
    /\ last'.act = "sendResponse" =>
          \A key \in DOMAIN serverTxns :
              (key = last'.key /\ serverTxns[key].isInvite /\ last'.status >= 300) =>
                  /\ key \in DOMAIN serverTxns'
                  /\ AwaitsAck(serverTxns'[key])
                  /\ serverTxns'[key].retransmitAt = NowAdd(timerGStart)
                  /\ serverTxns'[key].deadline = NowAdd(timerH)
    /\ last'.act = "tick" =>
          /\ \A key \in DOMAIN serverTxns :
                AwaitsAck(serverTxns[key]) =>
                    LET e == serverTxns[key]
                        d == last'.status
                    IN /\ ~IsZero(e.deadline) /\ ~IsZero(e.retransmitAt)
                       /\ e.lastResponse # <<>>
                       /\ e.lastResponse[1].StatusCode >= 300
                       /\ d > e.deadline[1] =>
                             key \notin DOMAIN serverTxns' /\ Resent(e) = 0
                       /\ (d <= e.deadline[1] /\ d >= e.retransmitAt[1]) =>
                             /\ key \in DOMAIN serverTxns'
                             /\ Resent(e) = 1
                             /\ serverTxns'[key].lastResponse = e.lastResponse
                       /\ (d <= e.deadline[1] /\ d < e.retransmitAt[1]) =>
                             key \in DOMAIN serverTxns' /\ Resent(e) = 0
          /\ \A j \in 1..Len(emitted') :
                emitted'[j].Direction = "downstream" =>
                    \E key \in DOMAIN serverTxns :
                        serverTxns[key].lastResponse = <<emitted'[j].Message>>

----------------------------------------------------------------------------
(* C14: timer C of an INVITE client transaction *)

\* timer C of the client entry e is what a tick d units later acts on: timer
\* B is not due and timer C is
TimerCFires(e, d) ==
    /\ e.isInvite
    /\ ~(~IsZero(e.deadline) /\ d >= e.deadline[1])
    /\ ~IsZero(e.timerCDeadline)
    /\ d >= e.timerCDeadline[1]

\* the CANCEL the claim describes for the stored request
IsCancelOf(msg, request) ==
    /\ msg.isRequest
    /\ msg.Method = "CANCEL"
    /\ msg.RequestURI = request.RequestURI
    /\ msg.CSeqNum = request.CSeqNum
    /\ msg.CSeqMethod = "CANCEL"
    /\ msg.Via = request.Via
    /\ msg.CallID = request.CallID

\* the events the tick of this step handed to the TU
TickEvents == SubSeq(toTU', Len(toTU) + 1, Len(toTU'))

\* what timer C does to the entry under key within the tick of this step
TimerCOutcome(key) ==
    LET e == clientTxns[key]
        cancels == {j \in 1..Len(emitted') :
                       /\ emitted'[j].Direction = "upstream"
                       /\ emitted'[j].Message.Via = e.request.Via
                       /\ emitted'[j].Message.Method = "CANCEL"}
        events == {j \in 1..Len(TickEvents) : TickEvents[j].ClientTxID = key}
    IN /\ key \notin DOMAIN clientTxns'
       /\ Cardinality(cancels) = 1
       /\ Cardinality(events) = 1
       /\ \A j \in cancels :
             /\ IsCancelOf(emitted'[j].Message, e.request)
             /\ j < Len(emitted')
             /\ emitted'[j + 1] = ToTU(timeoutEvent(key, e))
       /\ \A j \in events :
             /\ TickEvents[j].Kind = "tuEventResponse"
             /\ TickEvents[j].ServerTxID = e.serverTxID
             /\ TickEvents[j].Message.StatusCode = 408
       /\ \A j \in 1..Len(emitted') : emitted'[j] # Upstream(e.request)

C14_Step ==
    last'.act = "tick" =>
        \A key \in DOMAIN clientTxns :
            /\ TimerCFires(clientTxns[key], last'.status) => TimerCOutcome(key)
            /\ (clientTxns[key].isInvite
                 /\ clientTxns[key].serverTxID \in DOMAIN hist
                 /\ hist[clientTxns[key].serverTxID].upFinals # {})
                    => ~TimerCFires(clientTxns[key], last'.status)

\* C14: when timer C of an INVITE client transaction is due at a tick and
\* timer B is not, the tick emits one CANCEL upstream built from the stored
\* INVITE (same Request-URI, same CSeq number, method CANCEL), then hands one
\* 408 for it to the TU, and removes the entry; and timer C is never what a
\* tick acts on for a client transaction that has received a 3xx-6xx.
C14_TimerCCancels == [][C14_Step]_vars
----------------------------------------------------------------------------
(* C15: timers A and B of an INVITE client transaction stop at a 1xx *)

\* an INVITE client entry no response has matched yet
Unanswered(e) == e.isInvite /\ e.lastResponse = <<>>

\* an INVITE client entry whose last matched response is a 1xx
Ringing(e) ==
    /\ e.isInvite
    /\ e.lastResponse # <<>>
    /\ e.lastResponse[1].StatusCode < 200

\* how often the tick of this step sent the request of e upstream
Retransmitted(e) ==
    Cardinality({j \in 1..Len(emitted') : emitted'[j] = Upstream(e.request)})

C15_Step ==
    /\ last'.act = "handleResponse" =>
          \A key \in DOMAIN clientTxns :
              (key = last'.key /\ clientTxns[key].isInvite /\ last'.status < 200) =>
                  /\ key \in DOMAIN clientTxns'
                  /\ Ringing(clientTxns'[key])
                  /\ IsZero(clientTxns'[key].retransmitAt)
                  /\ IsZero(clientTxns'[key].deadline)
                  /\ ~IsZero(clientTxns'[key].timerCDeadline)
    /\ last'.act = "tick" =>
          \A key \in DOMAIN clientTxns :
              LET e == clientTxns[key]
                  d == last'.status
              IN /\ Unanswered(e) =>
                       /\ ~IsZero(e.deadline) /\ ~IsZero(e.retransmitAt)
                       /\ (d < e.deadline[1] /\ d >= e.retransmitAt[1]) =>
                             /\ Retransmitted(e) = 1
                             /\ key \in DOMAIN clientTxns'
                             /\ Unanswered(clientTxns'[key])
                 /\ Ringing(e) =>
                       /\ Retransmitted(e) = 0
                       /\ IsZero(e.deadline) /\ IsZero(e.retransmitAt)
                       /\ ~IsZero(e.timerCDeadline)
                       /\ d < e.timerCDeadline[1] =>
                             \A j \in 1..Len(TickEvents) : TickEvents[j].ClientTxID # key

\* C15: until a response matches it, an INVITE client transaction has timers
\* A and B armed and a tick at or after the retransmit time (and before timer
\* B) sends its request upstream again; a 1xx that matches it clears both and
\* leaves timer C armed, and from then on no tick sends the INVITE again and
\* no tick before timer C hands a 408 for it to the TU.
C15_RetransmitsUntilProvisional == [][C15_Step]_vars

\* a tick passed the time at which timer B would have been due for an INVITE
\* client transaction that a 180 had matched: nothing was sent, it is kept
C15_Witness ==
    /\ last.act = "tick"
    /\ last.status >= timerB
    /\ emitted = <<>>
    /\ \E key \in DOMAIN clientTxns :
          /\ Ringing(clientTxns[key])
          /\ clientTxns[key].state = "Proceeding"
          /\ ~IsZero(clientTxns[key].timerCDeadline)
----------------------------------------------------------------------------
(* C16: timer J of a non-INVITE server transaction *)

\* a non-INVITE server entry whose last response sent is a final one
AnsweredNonInvite(e) ==
    /\ ~e.isInvite
    /\ e.state = "Terminated"
    /\ e.lastResponse # <<>>
    /\ e.lastResponse[1].StatusCode >= 200

C16_Step ==
    /\ last'.act = "sendResponse" =>
          \A key \in DOMAIN serverTxns :
              (key = last'.key /\ ~serverTxns[key].isInvite /\ last'.status >= 200) =>
                  /\ key \in DOMAIN serverTxns'
                  /\ AnsweredNonInvite(serverTxns'[key])
                  /\ serverTxns'[key].lastResponse = <<Head(fromTU).Message>>
                  /\ serverTxns'[key].deadline = NowAdd(timerJ)
    /\ last'.act = "handleRequest" =>
          \A key \in DOMAIN serverTxns :
              (key = last'.key /\ AnsweredNonInvite(serverTxns[key])) =>
                  /\ emitted' = <<Downstream(serverTxns[key].lastResponse[1])>>
                  /\ toTU' = toTU
                  /\ key \in DOMAIN serverTxns'
                  /\ AnsweredNonInvite(serverTxns'[key])
                  /\ serverTxns'[key].deadline = serverTxns[key].deadline
    /\ last'.act = "tick" =>
          \A key \in DOMAIN serverTxns :
              AnsweredNonInvite(serverTxns[key]) =>
                  /\ ~IsZero(serverTxns[key].deadline)
                  /\ key \in DOMAIN serverTxns'
                        <=> last'.status <= serverTxns[key].deadline[1]
                  /\ \A j \in 1..Len(emitted') :
                        emitted'[j] # Downstream(serverTxns[key].lastResponse[1])

----------------------------------------------------------------------------
(* C17: the lifetime of a binding *)

\* the TU takes a REGISTER request next and a registrar is configured
TakesRegister ==
    /\ toTU # <<>>
    /\ Head(toTU).Kind = "tuEventRequest"
    /\ registrar # <<>>
    /\ EqualFold(Head(toTU).Message.Method, "REGISTER")

\* the response the step handed to the transaction layer last
Answer == fromTU'[Len(fromTU')].Message

\* the bindings the registrar r holds under key
BindingsOf(r, key) == IF key \in DOMAIN r.bindings THEN r.bindings[key] ELSE <<>>

\* every key of the binding table before or after the step
BindingKeys == DOMAIN registrar[1].bindings \cup DOMAIN registrar'[1].bindings

\* the expires of the contact raw of the request req: its own parameter,
\* else the Expires header, else 3600
EffectiveExpires(req, raw) ==
    IF GetHeaderParam(raw, "expires") # Blank THEN GetHeaderParam(raw, "expires").number
    ELSE IF req.Expires # Blank THEN req.Expires.number
    ELSE 3600

\* the contacts of req that name the address of the binding b
Touching(req, b) ==
    {i \in 1..Len(req.Contact) : contactKey(req.Contact[i]) = contactKey(b.contact)}

\* the contact addresses in a result of BindingsFor
Addresses(out) == {contactKey(out[i].Contact) : i \in 1..Len(out)}

C17_Step ==
    /\ (last'.act = "handleEvent" /\ TakesRegister /\ Answer.StatusCode = 200) =>
          LET req == Head(toTU).Message
              key == registrarKey(parseAddressOfRecord(req.To)[1],
                                  parseAddressOfRecord(req.To)[2])
              now == registrar[1].now
              after == BindingsOf(registrar'[1], key)
          IN  /\ \A i \in 1..Len(req.Contact) :
                    (~isWildcard(req.Contact) /\ EffectiveExpires(req, req.Contact[i]) > 0) =>
                        \E j \in 1..Len(after) :
                            /\ contactKey(after[j].contact) = contactKey(req.Contact[i])
                            /\ after[j].expires = now + EffectiveExpires(req, req.Contact[i])
              /\ \A j \in 1..Len(BindingsOf(registrar[1], key)) :
                    LET b == BindingsOf(registrar[1], key)[j] IN
                    (b.expires > now /\ Touching(req, b) = {} /\ ~isWildcard(req.Contact)) =>
                        \E k \in 1..Len(after) : after[k] = b
              /\ \A other \in BindingKeys \ {key} :
                    BindingsOf(registrar'[1], other) = BindingsOf(registrar[1], other)
    /\ (registrar # <<>> /\ ~(last'.act = "handleEvent" /\ TakesRegister)) =>
          \A key \in BindingKeys :
              \A j \in 1..Len(BindingsOf(registrar[1], key)) :
                  LET b == BindingsOf(registrar[1], key)[j] IN
                  b.expires > registrar'[1].now =>
                      \E k \in 1..Len(BindingsOf(registrar'[1], key)) :
                          BindingsOf(registrar'[1], key)[k] = b
    /\ last'.act = "BindingsFor" =>
          LET held == BindingsOf(registrar[1], last'.key)
              now == registrar[1].now
              live == {j \in 1..Len(held) : held[j].expires > now}
          IN  /\ \A j \in live :
                    \E k \in 1..Len(found') :
                        found'[k] = [Contact |-> held[j].contact, Expires |-> held[j].expires]
              /\ \A k \in 1..Len(found') :
                    /\ found'[k].Expires > now
                    /\ \E j \in live :
                          found'[k] = [Contact |-> held[j].contact, Expires |-> held[j].expires]
              /\ Len(found') = Cardinality(live)

\* C17: a REGISTER answered 200 at registrar time t0 leaves, for each of its
\* contacts c with effective expires E > 0, one binding of c that expires at
\* t0 + E; no step other than a later REGISTER touching c (or the wildcard)
\* changes or removes a binding before its expiry; BindingsFor at time t
\* returns exactly the bindings of the user whose expiry is strictly after
\* t. So c is returned at every t < t0 + E and never at t >= t0 + E.
C17_BindingLivesUntilExpiry == [][C17_Step]_vars

\* a REGISTER at time 0 bound one contact for 3 seconds and another for 1
\* second (its 200 listed both); BindingsFor was called at time 1, the very
\* second the shorter binding expired, and returned the longer one only
C17_Witness ==
    /\ last.act = "BindingsFor"
    /\ registrar # <<>>
    /\ registrar[1].now = 1
    /\ Len(found) = 1
    /\ found[1].Expires = 3
    /\ BindingsOf(registrar[1], last.key) =
           <<[contact |-> found[1].Contact, expires |-> 3]>>
    /\ \E key \in DOMAIN serverTxns :
          /\ key[1] = "REGISTER"
          /\ serverTxns[key].lastResponse # <<>>
          /\ serverTxns[key].lastResponse[1].StatusCode = 200
          /\ Len(serverTxns[key].lastResponse[1].Contact) = 2
----------------------------------------------------------------------------
(* C18: the wildcard contact *)

\* the TU takes a REGISTER whose only Contact is * and the registrar
\* authenticates it: the answer is none of those given before the bindings
\* are looked at
TakesWildcard ==
    /\ TakesRegister
    /\ isWildcard(Head(toTU).Message.Contact)
    /\ parseAddressOfRecord(Head(toTU).Message.To) # <<>>
    /\ Answer.StatusCode \notin {401, 403, 404, 500}

C18_Step ==
    (last'.act = "handleEvent" /\ TakesWildcard) =>
        LET req == Head(toTU).Message
            key == registrarKey(parseAddressOfRecord(req.To)[1],
                                parseAddressOfRecord(req.To)[2])
        IN  IF req.Expires = Number(0)
            THEN /\ Answer.StatusCode = 200
                 /\ BindingsOf(registrar'[1], key) = <<>>
            ELSE /\ Answer.StatusCode = 400
                 /\ registrar'[1].bindings = registrar[1].bindings

\* C18: an authenticated REGISTER whose only Contact is * is answered 200
\* and leaves no binding of the address-of-record when its Expires header is
\* 0; with no Expires header or any other value it is answered 400 and the
\* binding table is left as it was.
C18_WildcardNeedsExpiresZero == [][C18_Step]_vars
----------------------------------------------------------------------------
(* C19: who changes the binding table *)

\* the statuses the registrar refuses a REGISTER with
Refusals == {400, 401, 403, 404, 500}

\* the bindings held under key by r whose expiry is after the time t
LiveAt(r, key, t) == SelectSeq(BindingsOf(r, key), LAMBDA b : b.expires > t)

\* the Digest response a client computes from the credential stored for user
ResponseFor(user, p) ==
    md5Hex(<<ComputeHA1(user.Username, user.Domain, user.PasswordHash),
             <<p.nonce>>, <<p.nc>>, <<p.cnonce>>, <<"auth">>,
             md5Hex(<<<<"REGISTER">>, <<p.uri>>>>)>>)

\* the request names a user of the store in its To header and carries the
\* Digest response that belongs to the credential stored for that user
Verified(r, req) ==
    /\ r.store # <<>>
    /\ parseAddressOfRecord(req.To) # <<>>
    /\ req.Authorization # <<>>
    /\ LET key == registrarKey(parseAddressOfRecord(req.To)[1],
                               parseAddressOfRecord(req.To)[2])
       IN  /\ key \in DOMAIN r.store[1]
           /\ req.Authorization[1].params.response =
                  ResponseFor(r.store[1][key], req.Authorization[1].params)

C19_Step ==
    /\ (last'.act = "handleEvent" /\ TakesRegister /\ Answer.StatusCode \in Refusals) =>
          registrar'[1].bindings = registrar[1].bindings
    /\ registrar # <<>> =>
          \A key \in BindingKeys :
              LiveAt(registrar'[1], key, registrar[1].now)
                      # LiveAt(registrar[1], key, registrar[1].now) =>
                  /\ last'.act = "handleEvent"
                  /\ TakesRegister
                  /\ Verified(registrar[1], Head(toTU).Message)
                  /\ key = registrarKey(parseAddressOfRecord(Head(toTU).Message.To)[1],
                                        parseAddressOfRecord(Head(toTU).Message.To)[2])
                  /\ Answer.StatusCode = 200

\* C19: a REGISTER answered 400, 401, 403, 404 or 500 leaves the binding
\* table exactly as it was; the bindings in force of an address-of-record
\* (those whose expiry has not passed) change only in the step of a REGISTER
\* for that address-of-record whose Digest response is the one computed from
\* the credential stored for the addressed user.
C19_OnlyVerifiedRegisterBinds == [][C19_Step]_vars

\* alice holds a binding and a REGISTER for her address-of-record with a
\* Digest response computed from a wrong password was just answered 403
C19_Witness ==
    /\ last.act = "handleEvent"
    /\ last.key[1] = "REGISTER"
    /\ fromTU # <<>>
    /\ fromTU[Len(fromTU)].ServerTxID = last.key
    /\ fromTU[Len(fromTU)].Message.StatusCode = 403
    /\ fromTU[Len(fromTU)].Message.Via[1] = <<"z9hG4bKreg", 3>>
    /\ peer = ErrorPeer
    /\ registrar # <<>>
    /\ LiveAt(registrar[1], registrarKey("alice", "example.com"), registrar[1].now) # <<>>
----------------------------------------------------------------------------
(* C20: REGISTER is terminated locally *)

C20_Step ==
    /\ (last'.act = "handleEvent" /\ TakesRegister) =>
          /\ fromTU' = Append(fromTU, fromTU'[Len(fromTU')])
          /\ fromTU'[Len(fromTU')].Kind = "tuActionSendResponse"
          /\ fromTU'[Len(fromTU')].ServerTxID = Head(toTU).ServerTxID
          /\ Answer.StatusCode >= 200
          /\ Answer.Via = Head(toTU).Message.Via
          /\ UNCHANGED <<sessions, callIndex, nextBranch, clientTxns, upstreamSeen>>
    /\ \A j \in 1..Len(fromTU') :
          fromTU'[j].Kind = "tuActionForwardRequest" =>
              ~EqualFold(fromTU'[j].Message.Method, "REGISTER")
    /\ \A j \in 1..Len(emitted') :
          emitted'[j].Direction = "upstream" =>
              /\ ~EqualFold(emitted'[j].Message.Method, "REGISTER")
              /\ emitted'[j].Message.CSeqMethod # "REGISTER"
    /\ \A key \in DOMAIN clientTxns' : key[1] # "REGISTER"
    /\ \A msg \in upstreamSeen' : ~EqualFold(msg.Method, "REGISTER")
    /\ last'.act = "sendResponse" =>
          \A key \in DOMAIN serverTxns :
              (key = last'.key /\ key[1] = "REGISTER") =>
                  /\ emitted' = <<Downstream(Head(fromTU).Message)>>
                  /\ toTU' = toTU

\* C20: with a registrar configured, the TU answers every REGISTER request
\* it takes with exactly one SendResponse, a final response on the server
\* transaction of the request, and allocates no branch for it; no
\* ForwardRequest is ever issued for a REGISTER, nothing of a REGISTER is
\* sent upstream and no client transaction exists for one; the transaction
\* layer sends that response downstream once and gives nothing to the TU.
C20_RegisterAnsweredLocally == [][C20_Step]_vars

\* the 200 of a REGISTER was just sent downstream on its server transaction:
\* the binding is in the table, and there is no client transaction and
\* nothing was sent upstream
C20_Witness ==
    /\ last.act = "sendResponse"
    /\ last.key[1] = "REGISTER"
    /\ last.status = 200
    /\ last.key \in DOMAIN hist
    /\ hist[last.key].finals = 1
    /\ Len(emitted) = 1
    /\ emitted[1].Direction = "downstream"
    /\ emitted[1].Message.StatusCode = 200
    /\ emitted[1].Message.Contact # <<>>
    /\ registrar # <<>>
    /\ registrar[1].bindings # <<>>
    /\ clientTxns = <<>>
    /\ upstreamSeen = {}
----------------------------------------------------------------------------
(* C21: the Via stack on the way up and on the way back *)

\* the client transaction id belongs to a forwarded copy of the request of the
\* server transaction: the same method (a CANCEL or BYE the proxy originates
\* for an INVITE server transaction has another)
ForwardedCopy(serverTxID, clientTxID) ==
    clientTxID # <<>> /\ clientTxID[1] = serverTxID[1]

C21_Step ==
    /\ (last'.act = "handleEvent" /\ Head(toTU).Kind = "tuEventRequest") =>
          \A j \in 1..Len(NewActions) :
              NewActions[j].Kind = "tuActionForwardRequest" =>
                  NewActions[j].Message.Via =
                      <<keyBranch(NewActions[j].ClientTxID)>> \o Head(toTU).Message.Via
    /\ (/\ last'.act = "handleEvent"
        /\ Head(toTU).Kind = "tuEventResponse"
        /\ ForwardedCopy(Head(toTU).ServerTxID, Head(toTU).ClientTxID)
        /\ Head(toTU).Message.Via # <<>>
        /\ Head(toTU).Message.Via[1] = keyBranch(Head(toTU).ClientTxID)) =>
          \A j \in 1..Len(NewActions) :
              (/\ NewActions[j].Kind = "tuActionSendResponse"
               /\ NewActions[j].ClientTxID = Head(toTU).ClientTxID) =>
                  NewActions[j].Message.Via = Tail(Head(toTU).Message.Via)
    /\ (/\ last'.act = "sendResponse"
        /\ last'.key \in DOMAIN serverTxns
        /\ \/ Head(fromTU).ClientTxID = <<>>
           \/ ForwardedCopy(Head(fromTU).ServerTxID, Head(fromTU).ClientTxID)) =>
          /\ Len(emitted') = 1
          /\ emitted'[1].Direction = "downstream"
          /\ emitted'[1].Message.Via = serverTxns[last'.key].request.Via

\* C21: a request is forwarded with the Via of the proxy (the branch of the
\* new client transaction) on top of its own Via values; a response to the
\* forwarded request that comes back with that Via on top is handed on by
\* the TU with exactly that value removed, the others as they were and in
\* their order; the response the transaction layer then sends downstream
\* carries the Via values of the original request.
C21_ViaRoundTrip == [][C21_Step]_vars

\* the 200 of an INVITE that came over three earlier hops, one of them
\* without a branch, was just sent downstream with the four Via values of the
\* INVITE, after the INVITE went upstream with five
C21_Witness ==
    /\ last.act = "sendResponse"
    /\ last.status = 200
    /\ Len(emitted) = 1
    /\ emitted[1].Direction = "downstream"
    /\ emitted[1].Message.Via = <<<<"z9hG4bKclient", 3>>, Hop(1), NoBranch, Hop(2)>>
    /\ \E msg \in upstreamSeen :
          /\ Len(msg.Via) = 5
          /\ Tail(msg.Via) = emitted[1].Message.Via
----------------------------------------------------------------------------
(* C22: Max-Forwards of a forwarded request *)

\* the Max-Forwards header a request with the header mf is forwarded with:
\* one less, not below 0, and none for none
OneLess(mf) ==
    IF mf = <<>> THEN <<>>
    ELSE IF mf[1] > 0 THEN <<mf[1] - 1>>
    ELSE <<0>>

C22_Step ==
    /\ (last'.act = "handleEvent" /\ Head(toTU).Kind = "tuEventRequest") =>
          \A j \in 1..Len(NewActions) :
              NewActions[j].Kind = "tuActionForwardRequest" =>
                  NewActions[j].Message.MaxForwards =
                      OneLess(Head(toTU).Message.MaxForwards)
    /\ last'.act = "forwardRequest" =>
          \A j \in 1..Len(emitted') :
              emitted'[j].Direction = "upstream" =>
                  emitted'[j].Message.MaxForwards = Head(fromTU).Message.MaxForwards
    /\ \A j \in 1..Len(emitted') :
          (emitted'[j].Direction = "upstream" /\ emitted'[j].Message.MaxForwards # <<>>) =>
              emitted'[j].Message.MaxForwards[1] >= 0

\* C22: every copy of a request the TU forwards, relayed or forked, carries
\* Max-Forwards m - 1 for a request with m > 0, 0 for a request with 0 and
\* no Max-Forwards for a request without one; the layer sends the copy
\* upstream with that value, and no request sent upstream ever carries a
\* negative Max-Forwards.
C22_MaxForwardsOneLess == [][C22_Step]_vars

\* an OPTIONS that came with Max-Forwards 0 over one earlier hop was just
\* sent upstream with Max-Forwards 0
C22_Witness ==
    /\ last.act = "forwardRequest"
    /\ Len(emitted) = 1
    /\ emitted[1].Direction = "upstream"
    /\ emitted[1].Message.Method = "OPTIONS"
    /\ emitted[1].Message.MaxForwards = <<0>>
    /\ Tail(emitted[1].Message.Via) = <<<<"z9hG4bKclient", 2>>, Hop(1)>>

----------------------------------------------------------------------------
(* C23 *)

\* the bindings of the user that are in force when the request is routed
InForce(user, domain) ==
    IF registrar = <<>> THEN <<>>
    ELSE IF registrarKey(user, domain) \notin DOMAIN registrar[1].bindings THEN <<>>
    ELSE SelectSeq(registrar[1].bindings[registrarKey(user, domain)],
                   LAMBDA b : b.expires > registrar[1].now)

\* the positions of the bindings whose contact resolves
Resolving(bindings) ==
    {i \in 1..Len(bindings) : sipURIToUDPAddr(bindings[i].contact[1]) # <<>>}

\* the default contact of the directory entry of the user, <<>> for none
DefaultContact(user, domain) ==
    IF registrarKey(user, domain) \notin DOMAIN stack.directory THEN <<>>
    ELSE sipURIToUDPAddr(stack.directory[registrarKey(user, domain)].ContactURI)

C23_Step ==
    (last'.act = "selectUpstreamTarget" /\ routed'[1].message.isRequest
       /\ parseSIPURI(routed'[1].message.RequestURI) # <<>>) =>
        LET parsed == parseSIPURI(routed'[1].message.RequestURI)
            user == parsed[1]
            host == parsed[2]
            managed == ToLower(host) \in stack.managedDomains
            bound == IF managed THEN InForce(user, ToLower(host)) ELSE <<>>
            listed == DefaultContact(user, ToLower(host))
            direct == ResolveUDPAddr(host, parsed[3])
            got == routed'[1]
        IN
        IF Resolving(bound) # {}
        THEN ~got.err /\ got.addr = sipURIToUDPAddr(bound[SetMin(Resolving(bound))].contact[1])
        ELSE IF listed # <<>> THEN ~got.err /\ got.addr = listed
        ELSE IF direct # <<>> THEN ~got.err /\ got.addr = direct
        ELSE IF stack.upstreamAddr # <<>> THEN ~got.err /\ got.addr = stack.upstreamAddr
        ELSE got.err /\ got.addr = <<>>

\* C23: the target of a request is the first of these that exists: for a
\* Request-URI host that is a managed domain the address of the first binding
\* in force whose contact resolves, the resolvable default contact of the
\* directory entry of the user, the host and port of the Request-URI (port
\* 5060 when it names none) when they resolve, the configured upstream
\* address; and with none of them the selection is an error
C23_TargetByPriority == [][C23_Step]_vars

\* a request for bob@Example.COM was sent to bob's second resolvable binding,
\* the first having expired and the one before it not resolving, although bob
\* has a default contact in the directory, the host resolves and an upstream
\* is configured
C23_Witness ==
    /\ last.act = "selectUpstreamTarget"
    /\ routed # <<>>
    /\ routed[1].message.RequestURI = "sip:bob@Example.COM"
    /\ routed[1].addr = <<[host |-> "192.0.2.55", port |-> "5070"]>>
    /\ ~routed[1].err
    /\ registrar # <<>>
    /\ registrar[1].now >= 1
    /\ DefaultContact("bob", "example.com") # <<>>
    /\ stack.upstreamAddr # <<>>

----------------------------------------------------------------------------
(* C24 *)

C24_Step ==
    (last'.act = "handleRequest" /\ keyBranch(last'.key) = NoBranch) =>
        /\ Len(emitted') = 1
        /\ emitted'[1].Direction = "downstream"
        /\ ~emitted'[1].Message.isRequest
        /\ emitted'[1].Message.StatusCode = 400
        /\ topViaBranch(emitted'[1].Message) = NoBranch
        /\ serverTxns' = serverTxns
        /\ clientTxns' = clientTxns
        /\ toTU' = toTU
        /\ fromTU' = fromTU

\* C24: a request from downstream whose top Via has no branch makes the layer
\* put exactly one message on the transport queue, a 400 for downstream with
\* the Via of the request; no server transaction is created or changed, no
\* event goes to the TU, no action is pending for it and nothing goes upstream
C24_MissingBranchRejected == [][C24_Step]_vars

\* the OPTIONS without branch was rejected while a server transaction of the
\* same client was registered
C24_Witness ==
    /\ last.act = "handleRequest"
    /\ keyBranch(last.key) = NoBranch
    /\ emitted # <<>>
    /\ emitted[1].Message.StatusCode = 400
    /\ serverTxns # <<>>

----------------------------------------------------------------------------
(* C25 *)

\* the goroutine is blocked in a channel send
Blocked(layer) ==
    /\ tasks[layer].pc = "sending"
    /\ Len(chans[Head(tasks[layer].pending).to]) >= QueueCap

\* C25: once Stop has cancelled the context, the goroutines of the three
\* layers return and Stop returns, whatever the channels hold and whether or
\* not anybody takes the messages for the client and the server
C25_StopReturns ==
    ctxDone ~> (stopAt = "returned" /\ \A layer \in Layers : tasks[layer].pc = "done")

\* Stop has returned with the channels between the layers and the channel to
\* the client full
C25_Witness ==
    /\ stopAt = "returned"
    /\ \A layer \in Layers : tasks[layer].pc = "done"
    /\ \A c \in {"transportToTxn", "txnToTransport", "txnToTU", "tuToTxn", "clientOut"} :
           Len(chans[c]) = QueueCap

----------------------------------------------------------------------------
(* C27 *)

\* two goroutines, each blocked sending to the full channel that only the
\* other one receives from
MutualBlock(a, toB, b, toA) ==
    /\ Blocked(a)
    /\ Head(tasks[a].pending).to = toB
    /\ Blocked(b)
    /\ Head(tasks[b].pending).to = toA

\* C27: while the context is not cancelled, the transaction layer is never
\* blocked sending to the full channel of TU events while the TU is blocked
\* sending to the full channel of TU actions, nor blocked sending to the full
\* channel to the transport while the transport is blocked sending to the
\* full channel of transport events
C27_NoMutualBlock ==
    ~ctxDone =>
        /\ ~MutualBlock("transactions", "txnToTU", "core", "tuToTxn")
        /\ ~MutualBlock("transactions", "txnToTransport", "transport", "transportToTxn")

----------------------------------------------------------------------------
(* C26 *)

\* the TU action the layer took in this step was a SendResponse for a server
\* transaction that is not registered
Dropped ==
    /\ last.act = "sendResponse"
    /\ last.key \notin DOMAIN serverTxns
    /\ emitted = <<>>

\* C26: the server transaction a client transaction was created for is
\* registered for as long as the client transaction is, and no SendResponse
\* finds its server transaction gone
C26_ServerOutlivesClient ==
    /\ \A key \in DOMAIN clientTxns : clientTxns[key].serverTxID \in DOMAIN serverTxns
    /\ ~Dropped

----------------------------------------------------------------------------
(* C28 *)

\* how far an INVITE server transaction has come
Rank(state) ==
    CASE state = "Proceeding" -> 0
      [] state = "Completed" -> 1
      [] state = "Confirmed" -> 2
      [] state = "Terminated" -> 3

\* the last response sent on the entry is a final one
FinalSent(entry) ==
    entry.lastResponse # <<>> /\ entry.lastResponse[1].StatusCode >= 200

C28_Step ==
    \A key \in DOMAIN serverTxns \cap DOMAIN serverTxns' :
        serverTxns[key].isInvite =>
            /\ Rank(serverTxns'[key].state) >= Rank(serverTxns[key].state)
            /\ FinalSent(serverTxns[key]) => FinalSent(serverTxns'[key])

\* C28: while an INVITE server transaction is registered its state never
\* goes back in the order Proceeding, Completed, Confirmed, Terminated, and
\* once a final response is the last one sent on it, no step makes a
\* provisional the last response sent
C28_OnlyForward == [][C28_Step]_vars

----------------------------------------------------------------------------
(* C29 *)

\* the last response the client transaction received is a final one
FinalReceived(entry) ==
    entry.lastResponse # <<>> /\ entry.lastResponse[1].StatusCode >= 200

C29_Step ==
    \A key \in DOMAIN clientTxns :
        FinalReceived(clientTxns[key]) =>
            /\ \A j \in 1..Len(NewEvents) : NewEvents[j].ClientTxID # key
            /\ \A j \in 1..Len(emitted') :
                   emitted'[j].Direction = "upstream" =>
                       topViaBranch(emitted'[j].Message) # keyBranch(key)

\* C29: for a client transaction whose last response is a final one, no step
\* hands a response or a 408 for it to the TU, and no step sends its request
\* again or a CANCEL for it upstream
C29_QuietAfterFinal == [][C29_Step]_vars

----------------------------------------------------------------------------
(* C30 *)

\* the action is a SendResponse for the response to a CANCEL or BYE that the
\* TU made for a fork of an INVITE: the client transaction is one of a CANCEL
\* or BYE, the server transaction one of an INVITE
ForOwnRequest(action) ==
    /\ action.Kind = "tuActionSendResponse"
    /\ action.ClientTxID # <<>>
    /\ action.ClientTxID[1] \in {"CANCEL", "BYE"}
    /\ action.ServerTxID[1] = "INVITE"

C30_Step ==
    /\ \A j \in 1..Len(NewActions) : ~ForOwnRequest(NewActions[j])
    /\ (last'.act = "sendResponse" /\ fromTU # <<>> /\ ForOwnRequest(Head(fromTU))) =>
           emitted' = <<>>

\* C30: the TU issues no SendResponse for the response, or the 408, of a
\* client transaction of a CANCEL or BYE that it made itself for a fork, and
\* the layer sends no such response downstream
C30_OwnResponsesConsumed == [][C30_Step]_vars

----------------------------------------------------------------------------
(* Broadcast sessions: responses of the forks *)

\* the TU takes next the response of a fork of a broadcast session
TakesForkResponse ==
    /\ toTU # <<>>
    /\ Head(toTU).Kind = "tuEventResponse"
    /\ Head(toTU).ServerTxID \in DOMAIN sessions
    /\ Head(toTU).ClientTxID \in DOMAIN sessions[Head(toTU).ServerTxID].forks
    /\ ToUpper(cseqMethod(Head(toTU).Message)) # "CANCEL"

\* the session and the fork of that response, and the response as the TU
\* passes it on, without the Via of the fork
ForkSession == sessions[Head(toTU).ServerTxID]
ForkOf == ForkSession.forks[Head(toTU).ClientTxID]
ForkResponse == removeTopViaWithBranch(Head(toTU).Message, ForkOf.branch)

\* the first final of a fork, a failure with the highest status the session
\* has seen so far, from another responder than the one kept
TiesBest ==
    /\ TakesForkResponse
    /\ ~ForkOf.final
    /\ ForkResponse.StatusCode >= 300
    /\ ForkSession.bestResponse # <<>>
    /\ ForkResponse.StatusCode = ForkSession.bestStatus
    /\ ForkResponse # ForkSession.bestResponse[1]

C31_Step ==
    (last'.act = "handleEvent" /\ TiesBest) =>
        /\ Head(toTU).ServerTxID \in DOMAIN sessions' =>
               sessions'[Head(toTU).ServerTxID].bestResponse = <<ForkResponse>>
        /\ \A j \in 1..Len(NewActions) :
               NewActions[j].Kind = "tuActionSendResponse" =>
                   NewActions[j].Message = ForkResponse

\* C31: a failure final of a fork whose status equals the highest status the
\* session has seen replaces the response kept as bestResponse, and when it
\* completes the session it is the response sent downstream: among failure
\* finals of the same highest status the latest one is forwarded
C31_LatestOfTies == [][C31_Step]_vars

----------------------------------------------------------------------------
(* Broadcast sessions: CANCEL from downstream *)

\* the TU takes next a CANCEL from downstream whose Call-ID and CSeq number
\* are those of the INVITE of a session
TakesSessionCancel ==
    /\ toTU # <<>>
    /\ Head(toTU).Kind = "tuEventRequest"
    /\ EqualFold(Head(toTU).Message.Method, "CANCEL")
    /\ \E id \in DOMAIN sessions :
          /\ sessions[id].callKey # <<>>
          /\ sessions[id].callKey = callKeyFromMessage(Head(toTU).Message)
          /\ sessions[id].callKey \in DOMAIN callIndex
          /\ callIndex[sessions[id].callKey] = id

\* the session the CANCEL resolves to
CancelledSession == sessions[callIndex[callKeyFromMessage(Head(toTU).Message)]]

\* the action is the CANCEL of the fork
IsForkCancel(action, fork) ==
    /\ action.Kind = "tuActionForwardRequest"
    /\ EqualFold(action.Message.Method, "CANCEL")
    /\ topViaBranch(action.Message) = fork.branch

\* the forks a step of the TU sends a CANCEL to
ForksCancelled(session) ==
    {id \in DOMAIN session.forks :
        \E j \in 1..Len(NewActions) : IsForkCancel(NewActions[j], session.forks[id])}

\* the step answers the CANCEL 200 on the server transaction of the CANCEL
\* first, and sends after it nothing but one CANCEL to each fork of due
AnswersThenCancels(due) ==
    /\ Len(NewActions) = 1 + Cardinality(due)
    /\ NewActions[1].Kind = "tuActionSendResponse"
    /\ NewActions[1].ServerTxID = Head(toTU).ServerTxID
    /\ NewActions[1].ServerTxID[1] = "CANCEL"
    /\ NewActions[1].Message.StatusCode = 200
    /\ NewActions[1].Message.Via = Head(toTU).Message.Via
    /\ cseqMethod(NewActions[1].Message) = "CANCEL"
    /\ ForksCancelled(CancelledSession) = due
    /\ \A j \in 2..Len(NewActions) :
          \E id \in due : IsForkCancel(NewActions[j], CancelledSession.forks[id])

\* the layer takes next the 200 of a CANCEL that the TU answered
SendsCancelAnswer ==
    /\ fromTU # <<>>
    /\ Head(fromTU).Kind = "tuActionSendResponse"
    /\ Head(fromTU).ServerTxID[1] = "CANCEL"
    /\ Head(fromTU).ClientTxID = <<>>

C32_Step ==
    /\ (last'.act = "handleEvent" /\ TakesSessionCancel) =>
           AnswersThenCancels({id \in DOMAIN CancelledSession.forks :
                                  /\ ~CancelledSession.forks[id].final
                                  /\ ~CancelledSession.forks[id].cancelled})
    /\ (last'.act = "sendResponse" /\ SendsCancelAnswer) =>
           emitted' = <<Downstream(Head(fromTU).Message)>>

\* C32: for a CANCEL from downstream whose call key resolves to a broadcast
\* session the TU first answers 200 on the server transaction of the CANCEL,
\* which the layer sends downstream, then sends one CANCEL to every fork that
\* is neither final nor cancelled already, and forwards nothing else: the
\* CANCEL from downstream itself does not go upstream
C32_CancelAnsweredThenForks == [][C32_Step]_vars

\* C32 as stated: a CANCEL goes to every fork that is not final
C32_EveryNonFinalFork ==
    [][(last'.act = "handleEvent" /\ TakesSessionCancel) =>
           AnswersThenCancels({id \in DOMAIN CancelledSession.forks :
                                  ~CancelledSession.forks[id].final})]_vars

\* the CANCEL was answered, and a CANCEL for each of the two forks follows it
C32_Witness ==
    /\ last.act = "handleEvent"
    /\ last.key[1] = "CANCEL"
    /\ Len(fromTU) = 3
    /\ fromTU[1].Kind = "tuActionSendResponse"
    /\ fromTU[1].Message.StatusCode = 200
    /\ \A j \in 2..3 : /\ fromTU[j].Kind = "tuActionForwardRequest"
                        /\ fromTU[j].Message.Method = "CANCEL"
    /\ fromTU[2].ClientTxID # fromTU[3].ClientTxID

----------------------------------------------------------------------------
(* Broadcast sessions: the CANCEL of a fork *)

\* the actions of the step that are a CANCEL of the fork
CancelsOf(fork) == {j \in 1..Len(NewActions) : IsForkCancel(NewActions[j], fork)}

\* the action is the CANCEL of the fork, field by field
CancelAsDescribed(action, sid, fork) ==
    /\ action.ServerTxID = sid
    /\ action.ClientTxID = <<"CANCEL", fork.branch>>
    /\ action.ClientTxID # fork.clientTxID
    /\ action.Message.isRequest
    /\ action.Message.Method = "CANCEL"
    /\ action.Message.Via = fork.invite.Via
    /\ topViaBranch(action.Message) = topViaBranch(fork.invite)
    /\ action.Message.RequestURI = fork.requestURI
    /\ action.Message.CallID = fork.invite.CallID
    /\ action.Message.CSeqNum = sessions[sid].cseqNumber
    /\ action.Message.CSeqMethod = "CANCEL"
    /\ action.Message.Body = ""

C33_Step ==
    /\ last'.act = "handleEvent" =>
          \A sid \in DOMAIN sessions : \A id \in DOMAIN sessions[sid].forks :
             LET fork == sessions[sid].forks[id]
                 sent == CancelsOf(fork)
             IN /\ Cardinality(sent) <= 1
                /\ sent # {} =>
                      /\ ~fork.final
                      /\ ~fork.cancelled
                      /\ \A j \in sent : CancelAsDescribed(NewActions[j], sid, fork)
                      /\ sid \in DOMAIN sessions'
                      /\ sessions'[sid].forks[id].cancelled
                      /\ ~sessions'[sid].forks[id].final
    /\ (last'.act = "forwardRequest" /\ fromTU # <<>>
           /\ EqualFold(Head(fromTU).Message.Method, "CANCEL")) =>
          Head(fromTU).Message \notin upstreamSeen

----------------------------------------------------------------------------
(* Broadcast sessions: a 2xx after the winner *)

\* the TU takes next a 2xx to the INVITE of a fork, of a session that has a
\* winner already, from another fork than the winner
TakesLateSuccess ==
    /\ TakesForkResponse
    /\ cseqMethod(Head(toTU).Message) = "INVITE"
    /\ ForkResponse.StatusCode >= 200
    /\ ForkResponse.StatusCode < 300
    /\ ForkSession.winner # <<>>
    /\ ForkSession.winner # Head(toTU).ClientTxID

\* the URI of a Contact value: the value without its parameters, and without
\* the angle brackets when it has them
ContactURI(value) ==
    CHOOSE uri \in {ForkSession.forks[id].requestURI : id \in DOMAIN ForkSession.forks} :
        TrimSpace(value[1]) \in {uri, "<" \o uri \o ">"}

\* the Request-URI of the BYE: the URI of the first Contact of the response,
\* the target of the fork if it has none
ByeTarget ==
    IF ForkResponse.Contact = <<>> THEN ForkOf.requestURI
    ELSE ContactURI(ForkResponse.Contact[1])

\* the action is the BYE for the fork, field by field
ByeAsDescribed(action) ==
    /\ action.Kind = "tuActionForwardRequest"
    /\ action.ServerTxID = Head(toTU).ServerTxID
    /\ action.ClientTxID = <<"BYE", topViaBranch(action.Message)>>
    /\ action.Message.isRequest
    /\ action.Message.Method = "BYE"
    /\ topViaBranch(action.Message) = BranchID(nextBranch + 1)
    /\ \A msg \in upstreamSeen : topViaBranch(action.Message) # topViaBranch(msg)
    /\ Tail(action.Message.Via) = ForkOf.invite.Via
    /\ action.Message.CallID = ForkOf.invite.CallID
    /\ action.Message.CSeqNum = ForkSession.cseqNumber + 1
    /\ action.Message.CSeqMethod = "BYE"
    /\ action.Message.Body = ""
    /\ action.Message.RequestURI = ByeTarget

C34_Step ==
    /\ (last'.act = "handleEvent" /\ TakesLateSuccess) =>
          /\ Len(NewActions) = 1
          /\ ByeAsDescribed(NewActions[1])
    /\ last'.act = "handleEvent" =>
          \A j \in 1..Len(NewActions) :
             (/\ NewActions[j].Kind = "tuActionForwardRequest"
              /\ NewActions[j].Message.Method = "BYE") => TakesLateSuccess

\* C34: for a 2xx from a fork of a session that another fork has won, the TU
\* sends no response downstream and exactly one request, a BYE with a branch
\* not used before on top of the Via stack of the INVITE of the fork, the
\* CSeq number of the session plus one with the method BYE, no body, and
\* as Request-URI the URI of the Contact of the 2xx, or the target of the
\* fork when the 2xx has no Contact; and the TU makes a BYE in no other case
C34_LateSuccessGetsBye == [][C34_Step]_vars

----------------------------------------------------------------------------
(* Broadcast sessions: provisional responses *)

\* the TU takes next a provisional response to a forked INVITE
TakesForkProvisional ==
    /\ toTU # <<>>
    /\ Head(toTU).Kind = "tuEventResponse"
    /\ Head(toTU).Message.StatusCode < 200
    /\ cseqMethod(Head(toTU).Message) = "INVITE"
    /\ Head(toTU).ServerTxID \in DOMAIN hist
    /\ hist[Head(toTU).ServerTxID].forked

\* a final response has been sent downstream for the forked INVITE, or its
\* session is marked finalised
Finalised(serverTxID) ==
    \/ hist[serverTxID].finals > 0
    \/ serverTxID \in DOMAIN sessions /\ sessions[serverTxID].finalised

C35_Step ==
    /\ (last'.act = "handleEvent" /\ TakesForkProvisional /\ TakesForkResponse
           /\ ~Finalised(Head(toTU).ServerTxID)) =>
          /\ topViaBranch(Head(toTU).Message) = ForkOf.branch
          /\ NewActions = <<SendResponse(Head(toTU).ServerTxID, Head(toTU).ClientTxID,
                                         [Head(toTU).Message EXCEPT !.Via = Tail(@)])>>
    /\ (last'.act = "handleEvent" /\ TakesForkProvisional
           /\ Finalised(Head(toTU).ServerTxID)) =>
          NewActions = <<>>
    /\ (last'.act = "sendResponse" /\ fromTU # <<>>
           /\ Head(fromTU).Message.StatusCode < 200
           /\ Head(fromTU).ServerTxID \in DOMAIN hist
           /\ hist[Head(fromTU).ServerTxID].forked) =>
          emitted' = IF Finalised(Head(fromTU).ServerTxID) THEN <<>>
                     ELSE <<Downstream(Head(fromTU).Message)>>

\* C35: a provisional response of a fork that the TU takes before a final
\* went downstream for the INVITE goes downstream once, without the Via of
\* the fork; once the session is finalised or a final has gone downstream,
\* the TU passes on no provisional response for the INVITE and the layer
\* sends none
C35_ProvisionalsUntilFinal == [][C35_Step]_vars

----------------------------------------------------------------------------
(* Broadcast sessions: the two indexes *)

\* the session of serverTxID in the table ss is found under its call key in
\* the index ci
Indexed(ss, ci, serverTxID) ==
    /\ serverTxID \in DOMAIN ss
    /\ ss[serverTxID].callKey \in DOMAIN ci
    /\ ci[ss[serverTxID].callKey] = serverTxID

\* the session has to stay: a fork is not final, or it is not finalised
Live(session) == ~allForksFinal(session) \/ ~session.finalised

C36_Step ==
    /\ \A sid \in DOMAIN sessions' \ DOMAIN sessions :
          Indexed(sessions', callIndex', sid)
    /\ \A sid \in DOMAIN sessions :
          IF sid \in DOMAIN sessions'
          THEN /\ Live(sessions'[sid])
               /\ Indexed(sessions, callIndex, sid) =>
                      Indexed(sessions', callIndex', sid)
          ELSE /\ last'.act = "handleEvent"
               /\ last'.key = sid
               /\ Live(sessions[sid])
               /\ \A k \in DOMAIN callIndex' : callIndex'[k] # sid
    /\ \A sid \in DOMAIN sessions' : Live(sessions'[sid])

\* C36: a session is in the table under its server transaction id and in the
\* index under its call key from the step that creates it; a step keeps it in
\* both while it is live, removes only a session that the step finalised
\* with all forks final, removes it from both, and takes no other session
\* out of the index
C36_BothIndexes == [][C36_Step]_vars

----------------------------------------------------------------------------
(* Timers: termination deadlines *)

\* the time field t is set and the tick that comes d units after the last
\* step is not before it
Reached(t, d) == ~IsZero(t) /\ Later(t, d)[1] <= 0

\* a termination deadline of the server entry is reached: timer H, I or J,
\* or the retention time
ServerDue(e, d) == Reached(e.deadline, d) \/ Reached(e.expires, d)

\* a termination deadline of the client entry is reached: timer B or F,
\* timer C, timer D or K
ClientDue(e, d) ==
    Reached(e.deadline, d) \/ Reached(e.timerCDeadline, d) \/ Reached(e.terminateAt, d)

C37_Step ==
    last'.act = "tick" =>
        /\ \A k \in DOMAIN serverTxns :
              ServerDue(serverTxns[k], last'.status) => k \notin DOMAIN serverTxns'
        /\ \A k \in DOMAIN clientTxns :
              ClientDue(clientTxns[k], last'.status) => k \notin DOMAIN clientTxns'

\* C37: a tick removes every server entry whose deadline (timer H, I, J) or
\* retention time it is not before, and every client entry whose timer B or
\* F, timer C, or timer D or K it is not before
C37_DueEntriesDestroyed == [][C37_Step]_vars

----------------------------------------------------------------------------
(* Timers: retransmission *)

\* timer G of the server entry fires at the tick d units after the last
\* step: it is reached and the entry does not end at that tick
FiresG(e, d) ==
    /\ Reached(e.retransmitAt, d)
    /\ ~(~IsZero(e.deadline) /\ Later(e.deadline, d)[1] < 0)

\* timer A or E of the client entry fires at that tick
FiresAE(e, d) ==
    /\ Reached(e.retransmitAt, d)
    /\ ~Reached(e.deadline, d)
    /\ ~Reached(e.timerCDeadline, d)

\* how often the tick sent msg in the direction dir
TimesSent(dir, msg) ==
    Cardinality({j \in 1..Len(emitted') :
                    emitted'[j] = [Direction |-> dir, Message |-> msg]})

\* the intervals of a retransmission that starts at T1 and doubles up to T2
Intervals == {defaultTimerT1, 2 * defaultTimerT1, 4 * defaultTimerT1, defaultTimerT2}

C38_Step ==
    last'.act = "tick" =>
        /\ \A k \in DOMAIN serverTxns :
              FiresG(serverTxns[k], last'.status) =>
                 /\ serverTxns[k].isInvite
                 /\ serverTxns[k].lastResponse # <<>>
                 /\ serverTxns[k].lastResponse[1].StatusCode >= 300
                 /\ TimesSent("downstream", serverTxns[k].lastResponse[1])
                       = Cardinality({o \in DOMAIN serverTxns :
                                        /\ FiresG(serverTxns[o], last'.status)
                                        /\ serverTxns[o].lastResponse
                                              = serverTxns[k].lastResponse})
                 /\ k \in DOMAIN serverTxns'
                 /\ serverTxns'[k].retransmitInterval
                       = Min(2 * serverTxns[k].retransmitInterval, defaultTimerT2)
                 /\ serverTxns'[k].retransmitAt
                       = NowAdd(serverTxns'[k].retransmitInterval)
        /\ \A k \in DOMAIN clientTxns :
              FiresAE(clientTxns[k], last'.status) =>
                 /\ TimesSent("upstream", clientTxns[k].request)
                       = Cardinality({o \in DOMAIN clientTxns :
                                        /\ FiresAE(clientTxns[o], last'.status)
                                        /\ clientTxns[o].request = clientTxns[k].request})
                 /\ k \in DOMAIN clientTxns'
                 /\ clientTxns'[k].retransmitInterval
                       = Min(2 * clientTxns[k].retransmitInterval, defaultTimerT2)
                 /\ clientTxns'[k].retransmitAt
                       = NowAdd(clientTxns'[k].retransmitInterval)
        /\ \A k \in DOMAIN serverTxns' :
              ~IsZero(serverTxns'[k].retransmitAt) =>
                 serverTxns'[k].retransmitInterval \in Intervals
        /\ \A k \in DOMAIN clientTxns' :
              ~IsZero(clientTxns'[k].retransmitAt) =>
                 clientTxns'[k].retransmitInterval \in Intervals

\* C38: at a tick that reaches the retransmission time of an entry that does
\* not end at that tick, the final response cached for an INVITE server
\* transaction (timer G) or the request of a client transaction (timer A, E)
\* is sent once more, once, the interval of the entry becomes the smaller of
\* twice its value and T2, and the timer is set that interval ahead; every
\* interval is one of T1, 2 T1, 4 T1, T2
C38_DoublingUpToCap == [][C38_Step]_vars

----------------------------------------------------------------------------
(* Registrar: one binding per contact *)

\* the address of a contact value, without its parameters and in lower case:
\* the first segment, and with it the URI parameter that stands inside the
\* angle brackets where the contact has one
AddressOf(value) ==
    IF Len(value) >= 2 /\ value[2][2] \in {Text("udp>"), Text("tcp>")}
    THEN <<ToLower(TrimSpace(value[1])), value[2]>>
    ELSE <<ToLower(TrimSpace(value[1]))>>

\* the TU takes a REGISTER that names contacts, and the registrar accepts it
AcceptsContacts ==
    /\ TakesRegister
    /\ Head(toTU).Message.Contact # <<>>
    /\ ~isWildcard(Head(toTU).Message.Contact)
    /\ parseAddressOfRecord(Head(toTU).Message.To) # <<>>
    /\ Answer.StatusCode = 200

\* no two bindings of the list have the same address
OnePerAddress(bindings) ==
    \A i, j \in 1..Len(bindings) :
        i # j => AddressOf(bindings[i].contact) # AddressOf(bindings[j].contact)

C39_Step ==
    /\ registrar' # <<>> =>
          \A key \in DOMAIN registrar'[1].bindings :
              OnePerAddress(registrar'[1].bindings[key])
    /\ (last'.act = "handleEvent" /\ AcceptsContacts) =>
          LET req == Head(toTU).Message
              key == registrarKey(parseAddressOfRecord(req.To)[1],
                                  parseAddressOfRecord(req.To)[2])
              now == registrar[1].now
              before == LiveAt(registrar[1], key, now)
              after == BindingsOf(registrar'[1], key)
              At(address) == {i \in 1..Len(after) : AddressOf(after[i].contact) = address}
          IN  /\ \A n \in 1..Len(req.Contact) :
                    (\A m \in (n + 1)..Len(req.Contact) :
                        AddressOf(req.Contact[m]) # AddressOf(req.Contact[n])) =>
                       IF EffectiveExpires(req, req.Contact[n]) = 0
                       THEN At(AddressOf(req.Contact[n])) = {}
                       ELSE /\ Cardinality(At(AddressOf(req.Contact[n]))) = 1
                            /\ \A i \in At(AddressOf(req.Contact[n])) :
                                  after[i].expires
                                     = now + EffectiveExpires(req, req.Contact[n])
              /\ \A i \in 1..Len(before) :
                    (\A n \in 1..Len(req.Contact) :
                        AddressOf(req.Contact[n]) # AddressOf(before[i].contact)) =>
                       \E j \in 1..Len(after) : after[j] = before[i]

\* C39: no binding list ever holds two bindings with the same contact
\* address, compared without regard to case and to contact parameters; an
\* accepted REGISTER leaves, for each contact it names, no binding of that
\* address when its expires is 0 and else exactly one, expiring that many
\* seconds later; and it leaves the unexpired bindings of every address it
\* does not name as they were
C39_OneBindingPerContact == [][C39_Step]_vars

----------------------------------------------------------------------------
(* Registrar: the nonce of a challenge *)

\* the 401 responses of the registrar that the layer holds or is about to send
Challenges ==
    {serverTxns[k].lastResponse[1] :
        k \in {o \in DOMAIN serverTxns : serverTxns[o].lastResponse # <<>>}}
    \cup {fromTU[j].Message : j \in 1..Len(fromTU)}

\* the nonces the registrar has issued in a 401
Issued ==
    {resp.WWWAuthenticate[1].nonce :
        resp \in {c \in Challenges : c.StatusCode = 401 /\ c.WWWAuthenticate # <<>>}}

\* the Authorization headers of the REGISTER requests answered 200 so far
Accepted ==
    {serverTxns[k].request.Authorization :
        k \in {o \in DOMAIN serverTxns :
                  /\ o[1] = "REGISTER"
                  /\ serverTxns[o].lastResponse # <<>>
                  /\ serverTxns[o].lastResponse[1].StatusCode = 200}}

C40_Step ==
    (last'.act = "handleEvent" /\ TakesRegister /\ Answer.StatusCode = 200) =>
        /\ Head(toTU).Message.Authorization # <<>>
        /\ Head(toTU).Message.Authorization[1].params.nonce \in Issued
        /\ Head(toTU).Message.Authorization \notin Accepted

\* C40: a REGISTER is answered 200 only if its Authorization header carries
\* a nonce that the registrar has sent in the WWW-Authenticate header of a
\* 401, and only if no REGISTER with the same Authorization header has been
\* answered 200 before
C40_NonceWasIssued == [][C40_Step]_vars

====
